---------------------------- MODULE Spec2Model ----------------------------
(***************************************************************************)
(* Model of the ingestion / analysis pipeline of mena-signal:              *)
(*   backend/app/services/ingestion.py, backend/app/services/analysis.py,  *)
(*   backend/app/routes/items.py, backend/app/models.py.                   *)
(*                                                                         *)
(* The relational store is modelled at the level of committed rows plus,   *)
(* per open session, the rows it has flushed but not committed.  Other     *)
(* sessions never see uncommitted rows (the configured store is            *)
(* PostgreSQL, config.py:7, read committed); an INSERT of a key another    *)
(* open transaction has inserted waits for that transaction to end; a      *)
(* unique index rejects an INSERT of a committed key.  A SQLAlchemy        *)
(* session whose flush failed has rolled its transaction back and refuses  *)
(* every further commit until Session.rollback() is called.                *)
(*                                                                         *)
(* Text is a sequence of one-character strings, so that lower-casing,      *)
(* stripping and URL splitting are computed and not assumed.               *)
(***************************************************************************)
EXTENDS Integers, Sequences, FiniteSets, TLC

(***************************************************************************)
(* Bounds of the model.                                                    *)
(***************************************************************************)
MaxFeedLen == 2
MaxManual == 1
MaxRedeliver == 1
NumPasses == 2
NumWorkers == 2

Passes == 1..NumPasses
Workers == 1..NumWorkers

(***************************************************************************)
(* Text helpers.                                                           *)
(***************************************************************************)
\* str.lower() on one character (the alphabet of the model's texts)
LowerChar(c) ==
    CASE c = "A" -> "a"
      [] c = "B" -> "b"
      [] c = "C" -> "c"
      [] c = "D" -> "d"
      [] c = "E" -> "e"
      [] c = "F" -> "f"
      [] c = "G" -> "g"
      [] c = "H" -> "h"
      [] c = "I" -> "i"
      [] c = "J" -> "j"
      [] c = "K" -> "k"
      [] c = "L" -> "l"
      [] c = "M" -> "m"
      [] c = "N" -> "n"
      [] c = "O" -> "o"
      [] c = "P" -> "p"
      [] c = "Q" -> "q"
      [] c = "R" -> "r"
      [] c = "S" -> "s"
      [] c = "T" -> "t"
      [] c = "U" -> "u"
      [] c = "V" -> "v"
      [] c = "W" -> "w"
      [] c = "X" -> "x"
      [] c = "Y" -> "y"
      [] c = "Z" -> "z"
      [] OTHER -> c

\* A text left in the case it came in
Lower_none(s) == s

Lower(s) == [i \in 1..Len(s) |-> LowerChar(s[i])]

RECURSIVE LStrip(_, _)
LStrip(s, cs) == IF s # <<>> /\ Head(s) \in cs THEN LStrip(Tail(s), cs) ELSE s

RECURSIVE RStrip(_, _)
RStrip(s, cs) ==
    IF s # <<>> /\ s[Len(s)] \in cs THEN RStrip(SubSeq(s, 1, Len(s) - 1), cs) ELSE s

\* A text kept with its ends as they came
Strip_none(s, cs) == s

\* str.strip(chars)
Strip(s, cs) == RStrip(LStrip(s, cs), cs)

Whitespace == {" "}

\* index of the first element of s that is in cs, or Len(s) + 1
RECURSIVE FirstIn(_, _, _)
FirstIn(s, cs, i) ==
    IF i > Len(s) THEN Len(s) + 1
    ELSE IF s[i] \in cs THEN i ELSE FirstIn(s, cs, i + 1)

\* `k in s` for strings: k occurs in s as a contiguous substring
Contains(s, k) ==
    \E i \in 1..(Len(s) - Len(k) + 1) : SubSeq(s, i, i + Len(k) - 1) = k

SchemeChars == {"h", "t", "p", "s"}

\* urllib.parse.urlparse (ingestion.py line 33), split the way urllib splits:
\* scheme ":" "//" netloc path "?" query "#" fragment.  Each step hands what
\* it cut off to the next one.
UrlParts(scheme, netloc, nofrag, fragment, q) ==
    [scheme |-> scheme,
     netloc |-> netloc,
     path |-> SubSeq(nofrag, 1, q - 1),
     query |-> SubSeq(nofrag, q + 1, Len(nofrag)),
     fragment |-> fragment]

SplitQuery(scheme, netloc, nofrag, fragment) ==
    UrlParts(scheme, netloc, nofrag, fragment, FirstIn(nofrag, {"?"}, 1))

CutFragment(scheme, netloc, tail, f) ==
    SplitQuery(scheme, netloc, SubSeq(tail, 1, f - 1), SubSeq(tail, f + 1, Len(tail)))

SplitFragment(scheme, netloc, tail) ==
    CutFragment(scheme, netloc, tail, FirstIn(tail, {"#"}, 1))

CutNetloc(scheme, after, n) ==
    SplitFragment(scheme, SubSeq(after, 1, n - 1), SubSeq(after, n, Len(after)))

SplitNetloc(scheme, rest) ==
    IF Len(rest) >= 2 /\ rest[1] = "/" /\ rest[2] = "/"
    THEN CutNetloc(scheme, SubSeq(rest, 3, Len(rest)),
                   FirstIn(SubSeq(rest, 3, Len(rest)), {"/", "?", "#"}, 1))
    ELSE SplitFragment(scheme, <<>>, rest)

CutScheme(url, c) ==
    IF c > 1 /\ c <= Len(url) /\ \A i \in 1..(c - 1) : url[i] \in SchemeChars
    THEN SplitNetloc(SubSeq(url, 1, c - 1), SubSeq(url, c + 1, Len(url)))
    ELSE SplitNetloc(<<>>, url)

urlparse(url) == CutScheme(url, FirstIn(url, {":"}, 1))

(***************************************************************************)
(* Optional values (Python None).                                          *)
(***************************************************************************)
None == [none |-> TRUE, v |-> <<>>]
Some(x) == [none |-> FALSE, v |-> x]

\* datetime.isoformat(): one character per modelled instant
isoformat(d) == <<"@", IF d = 1 THEN "1" ELSE "2">>

\* sha256(...).hexdigest(), taken as collision free: the digest stands for
\* the text it was computed from
sha256(content) == content

\* ingestion.py create_item_hash; raises AttributeError when title is None
NetlocPath(parsed) == parsed.netloc \o parsed.path

\* create_item_hash lines 33-34, 37, 40
normalized_url(url) == Strip(Lower(NetlocPath(urlparse(url))), {"/"})

normalized_title(title) == Strip(Lower(title), Whitespace)

date_str(published_at) == IF published_at.none THEN <<>> ELSE isoformat(published_at.v)

create_item_hash(url, title, published_at) ==
    sha256(normalized_url(url) \o <<"|">> \o normalized_title(title)
           \o <<"|">> \o date_str(published_at))

funding_keywords ==
    { <<"r","a","i","s","e">>, <<"r","a","i","s","e","d">>,
      <<"f","u","n","d","i","n","g">>, <<"s","e","r","i","e","s">>,
      <<"s","e","e","d">>, <<"i","n","v","e","s","t","m","e","n","t">>,
      <<"m","i","l","l","i","o","n">>, <<"b","i","l","l","i","o","n">>,
      <<"$">>, <<"v","a","l","u","a","t","i","o","n">>,
      <<"r","o","u","n","d">>, <<"v","e","n","t","u","r","e">>,
      <<"b","a","c","k","e","d">>, <<"i","n","v","e","s","t","o","r">>,
      <<"c","a","p","i","t","a","l">>, <<"l","e","d"," ","b","y">> }

\* ingestion.py determine_item_type
determine_item_type(title, summary, category) ==
    IF \E k \in funding_keywords :
           Contains(Lower(title), k) \/ Contains(Lower(summary), k)
    THEN "funding"
    ELSE IF ~category.none /\ Contains(Lower(category.v), <<"f","u","n","d","i","n","g">>)
         THEN "funding"
         ELSE "company"

(***************************************************************************)
(* extract_funding_details: the round type.                                *)
(***************************************************************************)
Letters == {"a", "b", "c", "d", "e", "f", "g", "h", "i", "j", "k", "l", "m",
            "n", "o", "p", "q", "r", "s", "t", "u", "v", "w", "x", "y", "z"}

\* the word w stands in text at position i
WordAt(text, i, w) ==
    i + Len(w) - 1 <= Len(text) /\ SubSeq(text, i, i + Len(w) - 1) = w

\* \s+ from position j on: the position after the run of whitespace
RECURSIVE SkipWs(_, _)
SkipWs(text, j) ==
    IF j <= Len(text) /\ text[j] \in Whitespace THEN SkipWs(text, j + 1) ELSE j

\* series\s+([a-z]) matches at position i
SeriesAt(text, i) ==
    /\ WordAt(text, i, <<"s","e","r","i","e","s">>)
    /\ SkipWs(text, i + 6) > i + 6
    /\ SkipWs(text, i + 6) <= Len(text)
    /\ text[SkipWs(text, i + 6)] \in Letters

\* w1\s+w2 matches at position i
PhraseAt(text, i, w1, w2) ==
    /\ WordAt(text, i, w1)
    /\ SkipWs(text, i + Len(w1)) > i + Len(w1)
    /\ WordAt(text, SkipWs(text, i + Len(w1)), w2)

\* re.search(pattern, text) finds a match
Matches(text, r) ==
    CASE r.kind = "series" -> \E i \in 1..Len(text) : SeriesAt(text, i)
      [] r.kind = "phrase" -> \E i \in 1..Len(text) : PhraseAt(text, i, r.w1, r.w2)
      [] OTHER -> Contains(text, r.w1)

\* group 1 of the leftmost match of series\s+([a-z])
SeriesLetter(text, i) == text[SkipWs(text, i + 6)]

LeftmostSeries(text) ==
    CHOOSE i \in 1..Len(text) :
        SeriesAt(text, i) /\ \A j \in 1..(i - 1) : ~SeriesAt(text, j)

\* the extractor of a pattern applied to its match
Extract(text, r) ==
    IF r.kind = "series"
    THEN <<"s","e","r","i","e","s","_">> \o <<SeriesLetter(text, LeftmostSeries(text))>>
    ELSE r.out

\* extract_funding_details lines 159-167: the patterns in the order tried
round_patterns ==
    << [kind |-> "series", w1 |-> <<"s","e","r","i","e","s">>, w2 |-> <<>>, out |-> <<>>],
       [kind |-> "phrase", w1 |-> <<"s","e","e","d">>, w2 |-> <<"r","o","u","n","d">>, out |-> <<"s","e","e","d">>],
       [kind |-> "word", w1 |-> <<"p","r","e","-","s","e","e","d">>, w2 |-> <<>>, out |-> <<"p","r","e","_","s","e","e","d">>],
       [kind |-> "word", w1 |-> <<"s","e","e","d">>, w2 |-> <<>>, out |-> <<"s","e","e","d">>],
       [kind |-> "series", w1 |-> <<"s","e","r","i","e","s">>, w2 |-> <<>>, out |-> <<>>],
       [kind |-> "phrase", w1 |-> <<"g","r","o","w","t","h">>, w2 |-> <<"r","o","u","n","d">>, out |-> <<"g","r","o","w","t","h">>],
       [kind |-> "phrase", w1 |-> <<"b","r","i","d","g","e">>, w2 |-> <<"r","o","u","n","d">>, out |-> <<"b","r","i","d","g","e">>] >>

\* lines 169-173: the first pattern that matches decides, none leaves None
RECURSIVE FirstMatch(_, _, _)
FirstMatch(text, patterns, k) ==
    IF k > Len(patterns) THEN None
    ELSE IF Matches(text, patterns[k]) THEN Some(Extract(text, patterns[k]))
    ELSE FirstMatch(text, patterns, k + 1)

\* line 156
FundingText(title, summary) == Lower(title \o <<" ">> \o summary)

(***************************************************************************)
(* extract_funding_details: the amount.                                    *)
(***************************************************************************)
Digits == {"0", "1", "2", "3", "4", "5", "6", "7", "8", "9"}

DigitValue(c) ==
    CASE c = "0" -> 0 [] c = "1" -> 1 [] c = "2" -> 2 [] c = "3" -> 3 [] c = "4" -> 4
      [] c = "5" -> 5 [] c = "6" -> 6 [] c = "7" -> 7 [] c = "8" -> 8 [] OTHER -> 9

\* \d+ from position j on: the position after the run of digits
RECURSIVE SkipDigits(_, _)
SkipDigits(text, j) ==
    IF j <= Len(text) /\ text[j] \in Digits THEN SkipDigits(text, j + 1) ELSE j

\* (?:\.\d+)? at position d, the end of the integer part: the position after
\* the number
FractionEnd(text, d) ==
    IF d + 1 <= Len(text) /\ text[d] = "." /\ text[d + 1] \in Digits
    THEN SkipDigits(text, d + 1) ELSE d

\* (\d+(?:\.\d+)?) at position i, a digit: the position after the number
NumberEnd(text, i) == FractionEnd(text, SkipDigits(text, i))

\* \w
WordChars == Letters \cup Digits \cup {"_"}

\* (?:word|letter) or (?:word|letter\b) at position j: the position after
\* the unit, 0 when it is not there
UnitEnd(text, j, p) ==
    IF WordAt(text, j, p.word) THEN j + Len(p.word)
    ELSE IF /\ j <= Len(text)
            /\ text[j] = p.letter
            /\ p.boundary => (j = Len(text) \/ text[j + 1] \notin WordChars)
         THEN j + 1
         ELSE 0

\* \s*(?:dollars|\$) at position k: the position after it, 0 when not there
TailEnd(text, k) ==
    IF WordAt(text, k, <<"d","o","l","l","a","r","s">>) THEN k + 7
    ELSE IF k <= Len(text) /\ text[k] = "$" THEN k + 1
    ELSE 0

AfterUnit(text, u, p) ==
    IF u = 0 \/ ~p.tail THEN u ELSE TailEnd(text, SkipWs(text, u))

\* where the number of a match of pattern p at position i starts
NumberStart(i, p) == i + Len(p.lead)

\* pattern p matches at position i: the position after the match, 0 when it
\* does not match there
AmountEnd(text, i, p) ==
    IF /\ WordAt(text, i, p.lead)
       /\ NumberStart(i, p) <= Len(text)
       /\ text[NumberStart(i, p)] \in Digits
    THEN AfterUnit(text,
                   UnitEnd(text, SkipWs(text, NumberEnd(text, NumberStart(i, p))), p),
                   p)
    ELSE 0

\* re.search: the leftmost position where pattern p matches, 0 when nowhere
RECURSIVE AmountSearch(_, _, _)
AmountSearch(text, i, p) ==
    IF i > Len(text) THEN 0
    ELSE IF AmountEnd(text, i, p) # 0 THEN i
    ELSE AmountSearch(text, i + 1, p)

\* extract_funding_details lines 177-181: the patterns in the order tried
amount_patterns ==
    << [lead |-> <<"$">>, word |-> <<"m","i","l","l","i","o","n">>, letter |-> "m", boundary |-> TRUE, tail |-> FALSE],
       [lead |-> <<"$">>, word |-> <<"b","i","l","l","i","o","n">>, letter |-> "b", boundary |-> TRUE, tail |-> FALSE],
       [lead |-> <<>>, word |-> <<"m","i","l","l","i","o","n">>, letter |-> "m", boundary |-> FALSE, tail |-> TRUE] >>

\* the number the digits of text from position i to before position e spell
RECURSIVE IntValue(_, _, _)
IntValue(text, i, e) ==
    IF i >= e THEN 0 ELSE IntValue(text, i, e - 1) * 10 + DigitValue(text[e - 1])

RECURSIVE Pow10(_)
Pow10(n) == IF n = 0 THEN 1 ELSE 10 * Pow10(n - 1)

\* float(match.group(1)) times scale, for the number from position ns to
\* before position ne whose integer part ends before position d.  The texts
\* of the model have fractions a float holds exactly.
AmountOf(text, ns, d, ne, scale) ==
    IntValue(text, ns, d) * scale
    + (IF ne > d THEN IntValue(text, d + 1, ne) * (scale \div Pow10(ne - d - 1)) ELSE 0)

\* line 187: the slice text[match.start():match.end()+n]
Around(text, i, e, n) ==
    SubSeq(text, i, IF e - 1 + n > Len(text) THEN Len(text) ELSE e - 1 + n)

\* line 187
LooksBillion(text, i, e) ==
    \/ Contains(Around(text, i, e, 10), <<"b","i","l","l","i","o","n">>)
    \/ Contains(Around(text, i, e, 3), <<"b">>)

\* lines 186-190 for the match of pattern p at position i
AmountAtMatch(text, i, p) ==
    AmountOf(text, NumberStart(i, p), SkipDigits(text, NumberStart(i, p)),
             NumberEnd(text, NumberStart(i, p)),
             IF LooksBillion(text, i, AmountEnd(text, i, p))
             THEN 1000 * 1000000 ELSE 1000000)

\* lines 183-191: the first pattern that matches decides, none leaves None
RECURSIVE FirstAmount(_, _, _)
FirstAmount(text, patterns, k) ==
    IF k > Len(patterns) THEN None
    ELSE IF AmountSearch(text, 1, patterns[k]) # 0
         THEN Some(AmountAtMatch(text, AmountSearch(text, 1, patterns[k]), patterns[k]))
         ELSE FirstAmount(text, patterns, k + 1)

\* ingestion.py extract_funding_details, the round type and the amount
extract_funding_details(title, summary) ==
    [round_type |-> FirstMatch(FundingText(title, summary), round_patterns, 1),
     amount_usd |-> FirstAmount(FundingText(title, summary), amount_patterns, 1),
     investors |-> <<>>]

(***************************************************************************)
(* extract_company_name.                                                   *)
(***************************************************************************)
UpperLetters == {"A", "B", "C", "D", "E", "F", "G", "H", "I", "J", "K", "L", "M",
                 "N", "O", "P", "Q", "R", "S", "T", "U", "V", "W", "X", "Y", "Z"}

\* [A-Za-z0-9\s\.]
NameChars == UpperLetters \cup Letters \cup Digits \cup Whitespace \cup {"."}

\* verb, an optional s, and \s at position k
VerbThenSpace(text, k, verb) ==
    /\ WordAt(text, k, verb)
    /\ k + Len(verb) <= Len(text)
    /\ \/ text[k + Len(verb)] \in Whitespace
       \/ /\ text[k + Len(verb)] = "s"
          /\ k + Len(verb) + 1 <= Len(text)
          /\ text[k + Len(verb) + 1] \in Whitespace

\* (?:\s+verbs?\s) or (?:,\s) at position j
RestAt(text, j, p) ==
    IF p.comma
    THEN j + 1 <= Len(text) /\ text[j] = "," /\ text[j + 1] \in Whitespace
    ELSE SkipWs(text, j) > j /\ VerbThenSpace(text, SkipWs(text, j), p.verb)

\* the ends g of a group ^([A-Z][A-Za-z0-9\s\.]+?) after which the rest of
\* pattern p matches
GroupEnds(text, p) ==
    { g \in 2..Len(text) :
        /\ text[1] \in UpperLetters
        /\ \A i \in 2..g : text[i] \in NameChars
        /\ RestAt(text, g + 1, p) }

\* the lazy group takes the shortest
ShortestEnd(ends) == CHOOSE g \in ends : \A h \in ends : g <= h

\* extract_company_name lines 118-125: the patterns in the order tried
company_patterns ==
    << [comma |-> FALSE, verb |-> <<"r","a","i","s","e">>],
       [comma |-> FALSE, verb |-> <<"a","n","n","o","u","n","c","e">>],
       [comma |-> FALSE, verb |-> <<"s","e","c","u","r","e">>],
       [comma |-> FALSE, verb |-> <<"c","l","o","s","e">>],
       [comma |-> FALSE, verb |-> <<"g","e","t">>],
       [comma |-> TRUE, verb |-> <<>>] >>

\* str.split(): the words of text from position i on
RECURSIVE SplitFrom(_, _)
SplitFrom(text, i) ==
    IF SkipWs(text, i) > Len(text) THEN <<>>
    ELSE <<SubSeq(text, SkipWs(text, i), FirstIn(text, Whitespace, SkipWs(text, i)) - 1)>>
         \o SplitFrom(text, FirstIn(text, Whitespace, SkipWs(text, i)))

\* line 137
stop_words ==
    { <<"r","a","i","s","e","s">>, <<"a","n","n","o","u","n","c","e","s">>, <<"s","e","c","u","r","e","s">>, <<"c","l","o","s","e","s">>, <<"g","e","t","s">>, <<"l","a","n","d","s">>, <<"-">>, <<"|">> }

\* A fallback that looks at every word of the title
FirstWords_all(words) == words

\* line 136: words[:5]
FirstWords(words) == SubSeq(words, 1, IF Len(words) < 5 THEN Len(words) ELSE 5)

\* lines 136-139: the words before the first stop word
RECURSIVE TakeUntilStop(_, _)
TakeUntilStop(words, i) ==
    IF i > Len(words) \/ Lower(words[i]) \in stop_words THEN <<>>
    ELSE <<words[i]>> \o TakeUntilStop(words, i + 1)

\* ' '.join(words)
RECURSIVE Join(_)
Join(words) ==
    IF words = <<>> THEN <<>>
    ELSE IF Len(words) = 1 THEN words[1]
    ELSE words[1] \o <<" ">> \o Join(Tail(words))

\* lines 132-144: the fallback
CompanyFallback(title) ==
    IF /\ Len(SplitFrom(title, 1)) >= 2
       /\ TakeUntilStop(FirstWords(SplitFrom(title, 1)), 1) # <<>>
    THEN Some(Join(TakeUntilStop(FirstWords(SplitFrom(title, 1)), 1)))
    ELSE None

\* lines 127-130: the first pattern that matches decides
RECURSIVE FirstCompany(_, _, _)
FirstCompany(title, patterns, k) ==
    IF k > Len(patterns) THEN CompanyFallback(title)
    ELSE IF GroupEnds(title, patterns[k]) # {}
         THEN Some(Strip(SubSeq(title, 1, ShortestEnd(GroupEnds(title, patterns[k]))),
                         Whitespace))
         ELSE FirstCompany(title, patterns, k + 1)

\* ingestion.py extract_company_name
extract_company_name(title) == FirstCompany(title, company_patterns, 1)

(***************************************************************************)
(* The candidate items a feed can hold (what parse_rss_feed returns for    *)
(* an entry: title, url, published_at, summary).                           *)
(***************************************************************************)
Entry(e) ==
    CASE e = 1 -> [title |-> Some(<<"T"," ">>),
                   url |-> <<"h",":","/","/","A","/","x","/","?","q">>,
                   published_at |-> None, summary |-> <<>>]
      [] e = 2 -> [title |-> Some(<<"S","e","e","d">>),
                   url |-> <<"h",":","/","/","a","/","y">>,
                   published_at |-> Some(1), summary |-> <<"x">>]
      [] e = 3 -> [title |-> Some(<<"x">>),
                   url |-> <<>>,
                   published_at |-> None, summary |-> <<>>]
      [] OTHER -> [title |-> None,
                   url |-> <<"h",":","/","/","a","/","z">>,
                   published_at |-> None, summary |-> <<>>]

EntryIds == 1..4

\* A raw feed: whether feedparser fetched and parsed it, and its entries,
\* each the candidate it stands for and whether its summary is text
RawEntries == [id : EntryIds, summary_is_text : BOOLEAN]

RawFeeds ==
    [fetched : BOOLEAN,
     entries : UNION {[1..n -> RawEntries] : n \in 0..MaxFeedLen}]

\* ingestion.py parse_rss_feed: the candidates of a raw feed.  The try of
\* line 48 spans the fetch and the whole loop over the entries: a fetch that
\* fails, or an entry whose candidate cannot be built (re.sub of line 75 on a
\* summary that is not text), ends in the except clause, which returns [].
parse_rss_feed(feed) ==
    IF ~feed.fetched THEN <<>>
    ELSE IF \E i \in DOMAIN feed.entries : ~feed.entries[i].summary_is_text THEN <<>>
    ELSE [i \in DOMAIN feed.entries |-> feed.entries[i].id]

\* The date fields of a raw entry: published_parsed absent (or empty), a
\* tuple datetime() accepts, or one it rejects; published absent, a text
\* date_parser.parse accepts, or one it rejects; and the dates they stand for
RawDates ==
    [published_parsed : {"absent", "usable", "unusable"}, parsed_date : {1, 2},
     published : {"absent", "parses", "garbage"}, text_date : {1, 2}]

\* parse_rss_feed lines 53-65: the publish time of the candidate of an entry
published_at(entry) ==
    IF entry.published_parsed # "absent"
    THEN IF entry.published_parsed = "usable" THEN Some(entry.parsed_date) ELSE None
    ELSE IF entry.published # "absent"
         THEN IF entry.published = "parses" THEN Some(entry.text_date) ELSE None
         ELSE None

\* How the call of parse_rss_feed in ingest_source (line 211) ended: with the
\* candidates of the feed, or in its except clause
FetchOutcomes == {"ok", "failed"}

\* A loop over a feed that stops at nothing
HasNext_any(fetch, n) == n < MaxFeedLen

\* ingest_source line 213, the loop over the returned list.  Nothing but this
\* loop reads the list, so the model draws each candidate from EntryIds when
\* the loop reaches it: HasNext(fetch, n) says whether the list can hold
\* another candidate after the first n.  The list of a failed call is empty.
HasNext(fetch, n) == fetch = "ok" /\ n < MaxFeedLen

(***************************************************************************)
(* State.                                                                  *)
(***************************************************************************)
VARIABLES
    sources,        \* table sources: id -> [enabled, type, category]
    items,          \* table items, committed rows [id, hash, type, source_id, by_run]
    details,        \* tables funding_details / company_details, committed rows [item_id, kind]
    analyses,       \* table mena_analysis, committed rows
    runs,           \* table ingest_runs: id -> row
    clock,          \* datetime.utcnow()
    nextItemId,     \* the sequence behind items.id
    openai_api_key, \* settings.openai_api_key is set
    pass,           \* per ingestion process: where it is in ingest_all_sources / ingest_source
    tx,             \* per ingestion process: rows its session flushed and has not committed
    queue,          \* analysis jobs waiting in the task queue (item ids)
    redelivered,    \* deliveries the queue repeated so far
    workers,        \* per queue worker: the analyze_item invocation it runs
    manual,         \* the create_manual_item request in progress
    batchlog,       \* history: the ingest_all_sources jobs that ended
    runlog,         \* history, per run: entries read, item ids flushed, how ingest_source ended
    calls,          \* history, per item: analyze_item invocations that found the item
    overlap,        \* history: items with two analyze_item invocations in flight at once
    probe,          \* a function applied on its own: [fn, arg, done, out]
    tags,           \* table tags, rows [id, user_id, name]
    item_tags,      \* table item_tags, rows [item_id, tag_id]
    nextTagId,      \* the sequence behind tags.id
    favorites,      \* table favorites, rows [id, user_id, item_id]
    nextFavId,      \* the sequence behind favorites.id
    nextSourceId,   \* the sequence behind sources.id
    reply           \* the last request of the tag, favorite and source routes, and its answer

vars == <<sources, items, details, analyses, runs, clock, nextItemId, openai_api_key,
          pass, tx, queue, redelivered, workers, manual, batchlog, runlog,
          calls, overlap, probe,
          tags, item_tags, nextTagId, favorites, nextFavId, nextSourceId, reply>>

\* What the tag, favorite and source routes work on, sources aside
userdata == <<tags, item_tags, nextTagId, favorites, nextFavId, nextSourceId, reply>>

SourceIds == 1..3
MaxItemId == 4
ItemIds == 1..MaxItemId

EmptyTx == [items |-> {}, details |-> {}]

IdlePass ==
    [pc |-> "idle", mode |-> "none", ids |-> <<>>, k |-> 0, results |-> <<>>,
     run |-> 0, cur |-> 0, idx |-> 0, items_added |-> 0]

\* An ingestion process whose job has ended
DonePass == [IdlePass EXCEPT !.pc = "done"]

NoReply == [op |-> "none", user |-> 0, arg |-> <<>>, status |-> 0, detail |-> ""]

NoProbe == [fn |-> "none", arg |-> <<>>, done |-> FALSE, out |-> <<>>]

IdleWorker == [pc |-> "idle", item |-> 0]

IdleManual == [pc |-> "idle", input |-> 0, done |-> 0]

Funding == <<"f","u","n","d","i","n","g">>

\* The system after construction, the items aside
InitOther ==
    /\ sources = [s \in SourceIds |->
                    [enabled |-> s # 3,
                     type |-> "rss",
                     url |-> s,
                     category |-> IF s = 2 THEN Some(Funding) ELSE None]]
    /\ nextSourceId = 4
    /\ tags = {}
    /\ item_tags = {}
    /\ nextTagId = 1
    /\ favorites = {}
    /\ nextFavId = 1
    /\ reply = NoReply
    /\ details = {}
    /\ analyses = {}
    /\ runs = <<>>
    /\ clock = 1
    /\ pass = [p \in Passes |-> IdlePass]
    /\ tx = [p \in Passes |-> EmptyTx]
    /\ queue = {}
    /\ redelivered = 0
    /\ workers = [w \in Workers |-> IdleWorker]
    /\ manual = IdleManual
    /\ runlog = <<>>
    /\ batchlog = <<>>
    /\ calls = [i \in ItemIds |-> <<>>]
    /\ overlap = {}

\* The system after construction
InitSystem ==
    /\ InitOther
    /\ openai_api_key \in BOOLEAN
    /\ items = {}
    /\ nextItemId = 1

Init ==
    /\ InitSystem
    /\ probe = NoProbe

(***************************************************************************)
(* The store.                                                              *)
(***************************************************************************)
\* db.query(Item).filter(Item.hash == h).first() over the rows a session sees
HashRows(rows, h) == {i \in rows : i.hash = h}

\* A store without the unique index on items.hash: every INSERT is accepted
hash_index_unchecked(h, p) == "ok"

\* models.py:59, unique index on items.hash, for an INSERT of h by session p:
\* a committed row with h is a violation; a row with h that another open
\* transaction inserted makes the INSERT wait for that transaction
hash_index(h, p) ==
    IF HashRows(items, h) # {} THEN "violation"
    ELSE IF \E q \in Passes \ {p} : HashRows(tx[q].items, h) # {} THEN "wait"
    ELSE "ok"

\* A store without the unique constraint on mena_analysis.item_id
analysis_index_unchecked(item_id) == "ok"

\* models.py:107, unique constraint on mena_analysis.item_id
analysis_index(item_id) ==
    IF \E a \in analyses : a.item_id = item_id THEN "violation" ELSE "ok"

(***************************************************************************)
(* analysis.py                                                             *)
(***************************************************************************)
RubricKeys == {"budget_buyer_exists", "localization_arabic_bilingual",
               "regulatory_friction", "distribution_path", "time_to_revenue"}

\* analysis.py get_stub_analysis
get_stub_analysis ==
    [fit_score |-> 50, mena_summary |-> "stub text", rubric |-> [k \in RubricKeys |-> 10]]

\* A conversion that keeps the value as it came
Clamp_none(lo, hi, x) == x

Clamp(lo, hi, x) == IF x < lo THEN lo ELSE IF x > hi THEN hi ELSE x

\* What the model call can produce: a failure (call error or text that is
\* not JSON), or a JSON object with some of the expected keys.  `malformed`
\* names the keys whose value int() cannot convert.
LLMOutcomes ==
    { [ok |-> FALSE, has_fit |-> FALSE, fit_score |-> 0, rubric |-> <<>>,
       malformed |-> {}],
      [ok |-> TRUE, has_fit |-> TRUE, fit_score |-> 120,
       rubric |-> [k \in {"budget_buyer_exists", "time_to_revenue"} |->
                      IF k = "budget_buyer_exists" THEN 25 ELSE 0 - 3],
       malformed |-> {}] }

\* run_llm_analysis lines 143 and 150: int() raises on a value it cannot
\* convert, for fit_score when present and for each named rubric key present
IntRaises(resp) ==
    \/ resp.has_fit /\ "fit_score" \in resp.malformed
    \/ \E k \in RubricKeys \cap DOMAIN resp.rubric : k \in resp.malformed

\* JSON objects the model can answer with: fit_score absent, in range, out of
\* range or not a number; two of the rubric keys each absent, in range, out
\* of range or not a number
FitValues == {0 - 5, 50, 120}
RubricValues == {0 - 3, 10, 25}
ProbedKeys == {"budget_buyer_exists", "time_to_revenue"}
LLMResponses ==
    LLMOutcomes \cup
    { [ok |-> TRUE, has_fit |-> hf, fit_score |-> f, rubric |-> r, malformed |-> m] :
        hf \in BOOLEAN, f \in FitValues,
        r \in UNION {[D -> RubricValues] : D \in SUBSET ProbedKeys},
        m \in SUBSET {"fit_score", "time_to_revenue"} }

\* A fallback that degrades to an empty result
run_llm_analysis_empty(resp) ==
    [fit_score |-> 0, mena_summary |-> "", rubric |-> [k \in RubricKeys |-> 0]]

\* analysis.py run_llm_analysis, for the outcome resp of the model call
run_llm_analysis(resp) ==
    IF ~openai_api_key THEN get_stub_analysis
    ELSE IF ~resp.ok THEN get_stub_analysis
    ELSE IF IntRaises(resp) THEN get_stub_analysis
    ELSE [fit_score |-> Clamp(0, 100, IF resp.has_fit THEN resp.fit_score ELSE 50),
          mena_summary |-> "model text",
          rubric |-> [k \in RubricKeys \cup DOMAIN resp.rubric |->
                        IF k \notin RubricKeys THEN resp.rubric[k]
                        ELSE IF k \in DOMAIN resp.rubric
                             THEN Clamp(0, 20, resp.rubric[k]) ELSE 10]]

\* analysis.py analyze_item line 186
model_name == IF openai_api_key THEN "gpt-4o-mini" ELSE "stub"

\* analysis.py analyze_item lines 181-187: the row to save
AnalysisRow(item_id, resp) ==
    LET result == run_llm_analysis(resp)
    IN  [id |-> Cardinality(analyses) + 1,
         item_id |-> item_id,
         fit_score |-> result.fit_score,
         mena_summary |-> result.mena_summary,
         rubric_json |-> result.rubric,
         model_name |-> model_name]

\* analysis.py analyze_item line 168: the lookup of the item in the committed
\* rows, which are what the new session of analyze_item sees
item_found(committed, item_id) == \E i \in committed : i.id = item_id

\* analyze_item without its existence check
analysis_exists_never(item_id) == FALSE

\* analysis.py analyze_item lines 173-175
analysis_exists(item_id) == \E a \in analyses : a.item_id = item_id

RowsOf(item_id) == {a \in analyses : a.item_id = item_id}

InFlight(item_id) == \E w \in Workers : workers[w].pc = "run" /\ workers[w].item = item_id

\* What the model call of an invocation that stored a record did
LlmOutcome(resp) ==
    IF ~openai_api_key THEN "none" ELSE IF resp.ok THEN "answered" ELSE "failed"

Logged(item_id, result, rows, llm) ==
    [calls EXCEPT ![item_id] = Append(@, [result |-> result, rows |-> rows, llm |-> llm])]

\* analysis.py analyze_item run in one piece (the inline call of
\* enqueue_analysis), `committed` being the item rows committed at the call
analyze_item_inline(item_id, committed, resp) ==
    IF ~item_found(committed, item_id)
    THEN UNCHANGED <<analyses, calls, overlap>>
    ELSE /\ overlap' = IF InFlight(item_id) THEN overlap \cup {item_id} ELSE overlap
         /\ IF analysis_exists(item_id)
            THEN /\ calls' = Logged(item_id, "skipped", RowsOf(item_id), "none")
                 /\ UNCHANGED analyses
            ELSE /\ analyses' = analyses \cup {AnalysisRow(item_id, resp)}
                 /\ calls' = Logged(item_id, "success", {AnalysisRow(item_id, resp)}, LlmOutcome(resp))

\* analysis.py enqueue_analysis: the job is queued when the queue is reachable,
\* and analyze_item runs inline when it is not
enqueue_analysis(item_id, committed, reachable, resp) ==
    IF reachable
    THEN /\ queue' = queue \cup {item_id}
         /\ UNCHANGED <<analyses, calls, overlap>>
    ELSE /\ analyze_item_inline(item_id, committed, resp)
         /\ UNCHANGED queue

\* A worker takes a job and runs analyze_item up to its existence check
\* (lines 167-175).  The queue delivers at least once: it may keep the job.
WorkerTake(w) ==
    /\ workers[w].pc = "idle"
    /\ \A v \in Workers : v < w => workers[v].pc # "idle"
    /\ \E job \in queue :
         /\ \/ /\ queue' = queue \ {job}
               /\ UNCHANGED redelivered
            \/ /\ redelivered < MaxRedeliver
               /\ redelivered' = redelivered + 1
               /\ UNCHANGED queue
         /\ IF ~item_found(items, job)
            THEN UNCHANGED <<workers, calls, overlap>>
            ELSE IF analysis_exists(job)
            THEN /\ calls' = Logged(job, "skipped", RowsOf(job), "none")
                 /\ overlap' = IF InFlight(job) THEN overlap \cup {job} ELSE overlap
                 /\ UNCHANGED workers
            ELSE /\ workers' = [workers EXCEPT ![w] = [pc |-> "run", item |-> job]]
                 /\ overlap' = IF InFlight(job) THEN overlap \cup {job} ELSE overlap
                 /\ UNCHANGED calls
    /\ UNCHANGED <<probe, userdata, sources, items, details, analyses, runs, clock, nextItemId,
                   openai_api_key, pass, tx, manual, runlog, batchlog>>

\* The worker's analyze_item calls the model, saves the row and commits
\* (lines 177-191); the commit raises IntegrityError on a second row for the item
WorkerFinish(w) ==
    /\ workers[w].pc = "run"
    /\ LET id == workers[w].item IN
       \E resp \in LLMOutcomes :
         IF analysis_index(id) = "violation"
         THEN /\ calls' = Logged(id, "raised", RowsOf(id), "none")
              /\ UNCHANGED analyses
         ELSE /\ analyses' = analyses \cup {AnalysisRow(id, resp)}
              /\ calls' = Logged(id, "success", {AnalysisRow(id, resp)}, LlmOutcome(resp))
    /\ workers' = [workers EXCEPT ![w] = IdleWorker]
    /\ UNCHANGED <<probe, userdata, sources, items, details, runs, clock, nextItemId, openai_api_key,
                   pass, tx, queue, redelivered, manual, runlog, batchlog, overlap>>


(***************************************************************************)
(* ingestion.py ingest_source / ingest_all_sources                         *)
(***************************************************************************)
\* ingest_all_sources lines 299-300: ids of the enabled sources, in id order
RECURSIVE EnabledFrom(_)
EnabledFrom(s) ==
    IF s \notin SourceIds THEN <<>>
    ELSE (IF sources[s].enabled THEN <<s>> ELSE <<>>) \o EnabledFrom(s + 1)

\* The pass over the current source has returned `status`: ingest_all_sources
\* stores it (line 304) and goes on to the next source, or returns
Results(p, status) ==
    Append(pass[p].results,
           [source |-> pass[p].ids[pass[p].k], status |-> status, run |-> pass[p].run])

Returned(p, status) ==
    IF pass[p].k < Len(pass[p].ids)
    THEN [IdlePass EXCEPT !.pc = "begin", !.mode = pass[p].mode, !.ids = pass[p].ids,
                          !.k = pass[p].k + 1, !.results = Results(p, status)]
    ELSE DonePass

\* History of the ingest_all_sources jobs that ended: the ids they listed, the
\* results they collected, and whether they returned or ended with an exception
BatchReturned(p, status) ==
    IF pass[p].mode = "all" /\ pass[p].k = Len(pass[p].ids)
    THEN Append(batchlog, [ids |-> pass[p].ids, results |-> Results(p, status),
                           ended |-> "returned"])
    ELSE batchlog

\* ingest_source raised: nothing in ingest_all_sources catches it (lines
\* 303-304), so the job ends there with the exception
BatchRaised(p) ==
    IF pass[p].mode = "all"
    THEN Append(batchlog, [ids |-> pass[p].ids, results |-> pass[p].results,
                           ended |-> "raised"])
    ELSE batchlog

\* Each ingestion process runs one job.  The processes are interchangeable: a
\* new job goes to the first one that has not started
FreePass(p) ==
    /\ pass[p].pc = "idle"
    /\ \A q \in Passes : q < p => pass[q].pc # "idle"

\* trigger_ingestion line 314 / a direct call: ingest_source(s)
TriggerIngestSource(p, s) ==
    /\ FreePass(p)
    /\ pass' = [pass EXCEPT ![p] =
                  [IdlePass EXCEPT !.pc = "begin", !.mode = "single", !.ids = <<s>>, !.k = 1]]
    /\ UNCHANGED <<probe, userdata, sources, items, details, analyses, runs, clock, nextItemId,
                   openai_api_key, tx, queue, redelivered, workers, manual, runlog,
                   batchlog, calls, overlap>>

\* trigger_ingestion line 316 / scheduler.py run_ingestion: ingest_all_sources,
\* lines 298-302
TriggerIngestAll(p) ==
    /\ FreePass(p)
    /\ pass' = [pass EXCEPT ![p] =
                  [IdlePass EXCEPT !.pc = "begin", !.mode = "all",
                                   !.ids = EnabledFrom(1), !.k = 1]]
    /\ UNCHANGED <<probe, userdata, sources, items, details, analyses, runs, clock, nextItemId,
                   openai_api_key, tx, queue, redelivered, workers, manual, runlog,
                   batchlog, calls, overlap>>

\* ingest_source lines 197-211: look the source up, create and commit the run
\* record, fetch the feed
BeginSource(p) ==
    /\ pass[p].pc = "begin"
    /\ LET s == pass[p].ids[pass[p].k] IN
       \/ /\ ~sources[s].enabled
          /\ pass' = [pass EXCEPT ![p] = Returned(p, "skipped")]
          /\ batchlog' = BatchReturned(p, "skipped")
          /\ UNCHANGED <<runs, clock, runlog>>
       \/ /\ sources[s].enabled
          /\ runs' = Append(runs, [source_id |-> s, started_at |-> clock,
                                   finished_at |-> 0, status |-> "running",
                                   items_added |-> 0, error |-> ""])
          /\ \E fetch \in FetchOutcomes :
               runlog' = Append(runlog, [read |-> {}, flushed |-> {}, fetch |-> fetch,
                                         ret |-> "none", exc |-> ""])
          /\ clock' = clock + 1
          /\ pass' = [pass EXCEPT ![p] =
                        [@ EXCEPT !.pc = IF sources[s].type = "rss" THEN "entry" ELSE "commit",
                                  !.run = Len(runs) + 1, !.idx = 0, !.items_added = 0]]
          /\ UNCHANGED batchlog
    /\ UNCHANGED <<probe, userdata, sources, items, details, analyses, nextItemId, openai_api_key, tx,
                   queue, redelivered, workers, manual, calls, overlap>>

\* ingest_source lines 218-222: the fingerprint of the entry the pass is at
EntryHash(e) ==
    create_item_hash(Entry(e).url, Entry(e).title.v, Entry(e).published_at)

\* ingest_source without its existence check
existing_never(p, h) == FALSE

\* ingest_source lines 225-227: the session sees the committed rows and the
\* rows it flushed itself
existing(p, h) == HashRows(items \cup tx[p].items, h) # {}

\* ingest_source lines 277-283: the rows the commit of a completed pass makes durable
\* A commit that makes the items durable and loses their detail rows
SuccessCommits_items_only(p) == [items |-> tx[p].items, details |-> {}]

SuccessCommits(p) == tx[p]

\* A handler that rolls the pass back instead of committing it
HandlerRollsBack(p) == EmptyTx

\* ingest_source lines 287-292: the rows db.commit() in the handler makes
\* durable, with the session still usable (the exception was not the session's)
HandlerCommits(p) == tx[p]

\* A pass that finalizes every run record of its source
RunsOfSource(p) ==
    {r \in DOMAIN runs : runs[r].source_id = runs[pass[p].run].source_id}

\* ingest_source lines 280-283 / 289-292: the run rows the pass finalizes
RunsToFinalize(p) == {pass[p].run}

Finalized(p, status, error) ==
    [r \in DOMAIN runs |->
        IF r \in RunsToFinalize(p)
        THEN [runs[r] EXCEPT !.finished_at = clock, !.status = status,
                             !.items_added = IF status = "success"
                                             THEN pass[p].items_added ELSE @,
                             !.error = error]
        ELSE runs[r]]

\* ingest_source lines 287-293, the except handler.  With a usable session its
\* commit makes the flushed rows and the FAILED run durable.  After a failed
\* flush the session has rolled back and db.commit() raises
\* PendingRollbackError, which leaves ingest_source.
ExceptHandler(p, session_usable, exc, log) ==
    LET r == pass[p].run IN
    /\ tx' = [tx EXCEPT ![p] = EmptyTx]
    /\ IF session_usable
       THEN /\ items' = items \cup HandlerCommits(p).items
            /\ details' = details \cup HandlerCommits(p).details
            /\ runs' = Finalized(p, "failed", exc)
            /\ clock' = clock + 1
            /\ runlog' = [log EXCEPT ![r].ret = "failed", ![r].exc = exc]
            /\ pass' = [pass EXCEPT ![p] = Returned(p, "failed")]
            /\ batchlog' = BatchReturned(p, "failed")
       ELSE /\ runlog' = [log EXCEPT ![r].ret = "raised", ![r].exc = exc]
            /\ pass' = [pass EXCEPT ![p] = DonePass]
            /\ batchlog' = BatchRaised(p)
            /\ UNCHANGED <<items, details, runs, clock>>

\* ingest_source lines 213-227: the next entry of the feed, up to the
\* existence check; after the last entry the loop is left
EntryStep(p) ==
    /\ pass[p].pc = "entry"
    /\ \/ /\ pass' = [pass EXCEPT ![p].pc = "commit"]
          /\ UNCHANGED <<items, details, runs, clock, tx, runlog, batchlog>>
       \/ /\ HasNext(runlog[pass[p].run].fetch, pass[p].idx)
          /\ \E e \in EntryIds :
               LET seen == [runlog EXCEPT ![pass[p].run].read = @ \cup {e}] IN
               \/ /\ Entry(e).url = <<>>
                  /\ pass' = [pass EXCEPT ![p].idx = @ + 1]
                  /\ runlog' = seen
                  /\ UNCHANGED <<items, details, runs, clock, tx, batchlog>>
               \/ /\ Entry(e).url # <<>>
                  /\ Entry(e).title.none
                  /\ ExceptHandler(p, TRUE, "AttributeError", seen)
               \/ /\ Entry(e).url # <<>>
                  /\ ~Entry(e).title.none
                  /\ existing(p, EntryHash(e))
                  /\ pass' = [pass EXCEPT ![p].idx = @ + 1]
                  /\ runlog' = seen
                  /\ UNCHANGED <<items, details, runs, clock, tx, batchlog>>
               \/ /\ Entry(e).url # <<>>
                  /\ ~Entry(e).title.none
                  /\ ~existing(p, EntryHash(e))
                  /\ pass' = [pass EXCEPT ![p].pc = "flush", ![p].cur = e, ![p].idx = @ + 1]
                  /\ runlog' = seen
                  /\ UNCHANGED <<items, details, runs, clock, tx, batchlog>>
    /\ UNCHANGED <<probe, userdata, sources, analyses, nextItemId, openai_api_key, queue, redelivered,
                   workers, manual, calls, overlap>>

\* The fingerprint pass p is about to INSERT
Wanted(p) == EntryHash(pass[p].cur)

\* Two passes each wait for a row the other inserted: the store ends one of
\* the two INSERTs with a deadlock error
Deadlocked(p) ==
    \E q \in Passes \ {p} :
        /\ pass[q].pc = "flush"
        /\ HashRows(tx[q].items, Wanted(p)) # {}
        /\ HashRows(tx[p].items, Wanted(q)) # {}

\* ingest_source lines 229-275: classify, INSERT the item (db.flush), add its
\* detail row to the session, count it, request its analysis
FlushEntry(p) ==
    /\ pass[p].pc = "flush"
    /\ LET ps == pass[p]
           e == Entry(ps.cur)
           h == Wanted(p)
           item_type == determine_item_type(e.title.v, e.summary,
                                            sources[runs[ps.run].source_id].category)
           row == [id |-> nextItemId, hash |-> h, type |-> item_type,
                   source_id |-> runs[ps.run].source_id, by_run |-> ps.run]
       IN
       \/ /\ hash_index(h, p) = "ok"
          /\ nextItemId <= MaxItemId
          /\ nextItemId' = nextItemId + 1
          /\ tx' = [tx EXCEPT ![p] =
                      [items |-> @.items \cup {row},
                       details |-> @.details \cup {[item_id |-> row.id, kind |-> item_type]}]]
          /\ runlog' = [runlog EXCEPT ![ps.run].flushed = @ \cup {row.id}]
          /\ pass' = [pass EXCEPT ![p] =
                        [@ EXCEPT !.pc = "entry", !.cur = 0, !.items_added = @ + 1]]
          /\ \E reachable \in BOOLEAN, resp \in LLMOutcomes :
                enqueue_analysis(row.id, items, reachable, resp)
          /\ UNCHANGED <<items, details, runs, clock, batchlog>>
       \/ /\ hash_index(h, p) = "violation"
          /\ ExceptHandler(p, FALSE, "IntegrityError", runlog)
          /\ UNCHANGED <<nextItemId, analyses, queue, calls, overlap>>
       \/ /\ hash_index(h, p) = "wait"
          /\ Deadlocked(p)
          /\ ExceptHandler(p, FALSE, "DeadlockDetected", runlog)
          /\ UNCHANGED <<nextItemId, analyses, queue, calls, overlap>>
    /\ UNCHANGED <<probe, userdata, sources, openai_api_key, redelivered, workers, manual>>

\* ingest_source lines 277-285: commit the items and details, then finalize
\* the run as SUCCESS
FinishSuccess(p) ==
    /\ pass[p].pc = "commit"
    /\ items' = items \cup SuccessCommits(p).items
    /\ details' = details \cup SuccessCommits(p).details
    /\ tx' = [tx EXCEPT ![p] = EmptyTx]
    /\ runs' = Finalized(p, "success", "")
    /\ clock' = clock + 1
    /\ runlog' = [runlog EXCEPT ![pass[p].run].ret = "success"]
    /\ pass' = [pass EXCEPT ![p] = Returned(p, "success")]
    /\ batchlog' = BatchReturned(p, "success")
    /\ UNCHANGED <<probe, userdata, sources, analyses, nextItemId, openai_api_key, queue, redelivered,
                   workers, manual, calls, overlap>>

(***************************************************************************)
(* routes/items.py create_manual_item                                      *)
(***************************************************************************)
\* The submission (ManualItemCreate): the URL and title of entry 1 written
\* differently, so that its fingerprint is that of entry 1
ManualInput(m) ==
    [url |-> <<"h",":","/","/","a","/","x">>, title |-> <<"t">>,
     type |-> "company", one_liner |-> TRUE]

ManualInputs == {1}

\* create_manual_item lines 188-192
ManualHash(m) == create_item_hash(ManualInput(m).url, ManualInput(m).title, None)

\* create_manual_item lines 187-200: fingerprint and duplicate check (400)
ManualCheck(m) ==
    /\ manual.pc = "idle"
    /\ manual.done < MaxManual
    /\ IF HashRows(items, ManualHash(m)) # {}
       THEN manual' = [manual EXCEPT !.done = @ + 1]
       ELSE manual' = [manual EXCEPT !.pc = "flush", !.input = m]
    /\ UNCHANGED <<probe, userdata, sources, items, details, analyses, runs, clock, nextItemId,
                   openai_api_key, pass, tx, queue, redelivered, workers,
                   runlog, batchlog, calls, overlap>>

\* create_manual_item lines 202-230: INSERT, optional company detail, commit,
\* then request the analysis; an IntegrityError leaves the handler (500)
ManualInsert ==
    /\ manual.pc = "flush"
    /\ LET m == manual.input
           h == ManualHash(m)
           row == [id |-> nextItemId, hash |-> h, type |-> ManualInput(m).type,
                   source_id |-> 0, by_run |-> 0]
       IN
       \/ /\ hash_index(h, 0) = "ok"
          /\ nextItemId <= MaxItemId
          /\ nextItemId' = nextItemId + 1
          /\ items' = items \cup {row}
          /\ details' = IF ManualInput(m).type = "company" /\ ManualInput(m).one_liner
                        THEN details \cup {[item_id |-> row.id, kind |-> "company"]}
                        ELSE details
          /\ \E reachable \in BOOLEAN, resp \in LLMOutcomes :
                enqueue_analysis(row.id, items \cup {row}, reachable, resp)
       \/ /\ hash_index(h, 0) = "violation"
          /\ UNCHANGED <<nextItemId, items, details, analyses, queue, calls, overlap>>
    /\ manual' = [IdleManual EXCEPT !.done = manual.done + 1]
    /\ UNCHANGED <<probe, userdata, sources, runs, clock, openai_api_key, pass, tx, redelivered,
                   workers, runlog, batchlog>>

(***************************************************************************)
(* The routes on tags, favorites and sources.  Each request runs in its    *)
(* own session and commits once, so a request is one step; what it         *)
(* answers is kept in reply, with the request's input (the input of a      *)
(* refused assign_tags_to_item aside).                                     *)
(***************************************************************************)
Users == 1..2

\* The items the requests name: 1 and 2 are stored, 3 is not
SeedItems ==
    { [id |-> i, hash |-> create_item_hash(<<"h",":","/","/","a","/","x">>,
                                            IF i = 1 THEN <<"t">> ELSE <<"u">>, None),
       type |-> "company", source_id |-> 0, by_run |-> 0] : i \in 1..2 }

RequestItemIds == 1..3

\* The store with two items, before any request of the routes
InitUserData ==
    /\ InitOther
    /\ openai_api_key = FALSE
    /\ items = SeedItems
    /\ nextItemId = 3
    /\ probe = NoProbe

\* What no route on tags, favorites and sources writes
ingested == <<items, details, analyses, runs, clock, nextItemId, openai_api_key,
              pass, tx, queue, redelivered, workers, manual, batchlog, runlog,
              calls, overlap, probe>>

Reply(op, user, arg, status, detail) ==
    [op |-> op, user |-> user, arg |-> arg, status |-> status, detail |-> detail]

MaxTagId == 3
TagNames == {"ai", "fintech"}
RequestTagIds == 1..MaxTagId

\* The tag_ids of a TagAssign body: a list, repetitions allowed
TagIdLists == UNION {[1..n -> RequestTagIds] : n \in 0..2}

Range(seq) == {seq[k] : k \in 1..Len(seq)}

\* routes/tags.py create_tag: 400 when the user has a tag of that name
create_tag(u, name) ==
    /\ IF \E t \in tags : t.user_id = u /\ t.name = name
       THEN /\ reply' = Reply("create_tag", u, name, 400, "Tag name already exists")
            /\ UNCHANGED <<tags, nextTagId>>
       ELSE /\ nextTagId <= MaxTagId
            /\ tags' = tags \cup {[id |-> nextTagId, user_id |-> u, name |-> name]}
            /\ nextTagId' = nextTagId + 1
            /\ reply' = Reply("create_tag", u, name, 200, "")
    /\ UNCHANGED <<item_tags, favorites, nextFavId, sources, nextSourceId, ingested>>

\* delete_tag line 66: the associations the bulk DELETE removes
tag_associations_none(tag_id) == {}

tag_associations(tag_id) == {r \in item_tags : r.tag_id = tag_id}

\* routes/tags.py delete_tag: 404 unless the tag is the user's; else its
\* associations and the tag go in one commit
delete_tag(u, tag_id) ==
    /\ IF ~\E t \in tags : t.id = tag_id /\ t.user_id = u
       THEN /\ reply' = Reply("delete_tag", u, tag_id, 404, "Tag not found")
            /\ UNCHANGED <<tags, item_tags>>
       ELSE /\ item_tags' = item_tags \ tag_associations(tag_id)
            /\ tags' = {t \in tags : t.id # tag_id}
            /\ reply' = Reply("delete_tag", u, tag_id, 200, "Tag deleted")
    /\ UNCHANGED <<nextTagId, favorites, nextFavId, sources, nextSourceId, ingested>>

\* assign_tags_to_item line 91
user_tag_ids(u) == {t.id : t \in {x \in tags : x.user_id = u}}

existing_item_tags_any_user(u, item_id) == {r \in item_tags : r.item_id = item_id}

\* assign_tags_to_item lines 97-100: the item's associations whose tag is the user's
existing_item_tags(u, item_id) ==
    {r \in item_tags : r.item_id = item_id /\ r.tag_id \in user_tag_ids(u)}

\* routes/tags.py assign_tags_to_item: 404 for a missing item, 400 for a tag
\* that is not the user's; then the user's associations on the item are
\* deleted and one is added per list element.  The flush sends the INSERTs
\* before the DELETEs, so a repeated id, or one already attached to the item,
\* meets the unique index ix_item_tags_item_tag: the commit raises and the
\* session is rolled back (500).
assign_tags_to_item(u, item_id, tag_ids) ==
    LET arg == [item_id |-> item_id, tag_ids |-> tag_ids]
        added == {[item_id |-> item_id, tag_id |-> t] : t \in Range(tag_ids)}
    IN
    /\ IF ~\E i \in items : i.id = item_id
       THEN /\ reply' = Reply("assign_tags_to_item", u, <<>>, 404, "Item not found")
            /\ UNCHANGED item_tags
       ELSE IF \E k \in 1..Len(tag_ids) : tag_ids[k] \notin user_tag_ids(u)
       THEN /\ reply' = Reply("assign_tags_to_item", u, <<>>, 400, "Tag not found")
            /\ UNCHANGED item_tags
       ELSE IF \/ Cardinality(Range(tag_ids)) < Len(tag_ids)
               \/ added \cap item_tags # {}
       THEN /\ reply' = Reply("assign_tags_to_item", u, <<>>, 500, "IntegrityError")
            /\ UNCHANGED item_tags
       ELSE /\ item_tags' = (item_tags \ existing_item_tags(u, item_id)) \cup added
            /\ reply' = Reply("assign_tags_to_item", u, arg, 200, "Tags updated")
    /\ UNCHANGED <<tags, nextTagId, favorites, nextFavId, sources, nextSourceId, ingested>>

MaxFavId == 5

\* add_favorite lines 76-79, remove_favorite lines 99-102: the user's favorite of the item
favorite_never(u, item_id) == {}

favorite_of(u, item_id) == {f \in favorites : f.user_id = u /\ f.item_id = item_id}

\* routes/favorites.py add_favorite: 404 for a missing item, a message and
\* no write when the user has the favorite; else one INSERT, which the
\* unique index ix_favorites_user_item guards
add_favorite(u, item_id) ==
    /\ IF ~\E i \in items : i.id = item_id
       THEN /\ reply' = Reply("add_favorite", u, item_id, 404, "Item not found")
            /\ UNCHANGED <<favorites, nextFavId>>
       ELSE IF favorite_of(u, item_id) # {}
       THEN /\ reply' = Reply("add_favorite", u, item_id, 200, "Already favorited")
            /\ UNCHANGED <<favorites, nextFavId>>
       ELSE IF \E f \in favorites : f.user_id = u /\ f.item_id = item_id
       THEN /\ reply' = Reply("add_favorite", u, item_id, 500, "IntegrityError")
            /\ UNCHANGED <<favorites, nextFavId>>
       ELSE /\ nextFavId <= MaxFavId
            /\ favorites' = favorites \cup
                              {[id |-> nextFavId, user_id |-> u, item_id |-> item_id]}
            /\ nextFavId' = nextFavId + 1
            /\ reply' = Reply("add_favorite", u, item_id, 200, "Added to favorites")
    /\ UNCHANGED <<tags, item_tags, nextTagId, sources, nextSourceId, ingested>>

\* routes/favorites.py remove_favorite: 404 when the user has no favorite of
\* the item, else it is deleted
remove_favorite(u, item_id) ==
    /\ IF favorite_of(u, item_id) = {}
       THEN /\ reply' = Reply("remove_favorite", u, item_id, 404, "Favorite not found")
            /\ UNCHANGED favorites
       ELSE /\ favorites' = favorites \ {CHOOSE f \in favorite_of(u, item_id) : TRUE}
            /\ reply' = Reply("remove_favorite", u, item_id, 200, "Removed from favorites")
    /\ UNCHANGED <<nextFavId, tags, item_tags, nextTagId, sources, nextSourceId, ingested>>

MaxSourceId == 5
RequestSourceIds == 1..MaxSourceId
Urls == 1..3

\* A source as create_source and load_sources_from_yaml store it
NewSource(url) == [enabled |-> TRUE, type |-> "rss", url |-> url, category |-> None]

\* routes/sources.py create_source line 42, load_sources_from_yaml line 338:
\* a stored source with the URL
url_exists(url) == \E s \in DOMAIN sources : sources[s].url = url

\* sources with the rows more, on the next ids of the sequence
Inserted(rows) ==
    [s \in DOMAIN sources \cup (nextSourceId..(nextSourceId + Len(rows) - 1)) |->
        IF s \in DOMAIN sources THEN sources[s] ELSE rows[s - nextSourceId + 1]]

\* routes/sources.py create_source: 400 when a source has the URL
create_source(url) ==
    /\ IF url_exists(url)
       THEN /\ reply' = Reply("create_source", 0, <<>>, 400, "Source URL already exists")
            /\ UNCHANGED <<sources, nextSourceId>>
       ELSE /\ nextSourceId <= MaxSourceId
            /\ sources' = Inserted(<<NewSource(url)>>)
            /\ nextSourceId' = nextSourceId + 1
            /\ reply' = Reply("create_source", 0, <<>>, 200, "")
    /\ UNCHANGED <<tags, item_tags, nextTagId, favorites, nextFavId, ingested>>

\* The url and enabled of a SourceUpdate body, each optional
SourceUpdates == [url : {None} \cup {Some(u) : u \in Urls},
                  enabled : {None} \cup {Some(b) : b \in BOOLEAN}]

\* routes/sources.py update_source: 404 for a missing source; else every
\* field the body gives is assigned, the url with no look at the other
\* sources, and committed
update_source(source_id, source_data) ==
    /\ IF source_id \notin DOMAIN sources
       THEN /\ reply' = Reply("update_source", 0, <<>>, 404, "Source not found")
            /\ UNCHANGED sources
       ELSE /\ sources' =
                 [sources EXCEPT ![source_id] =
                    [@ EXCEPT !.url = IF source_data.url.none THEN @ ELSE source_data.url.v,
                              !.enabled = IF source_data.enabled.none THEN @
                                          ELSE source_data.enabled.v]]
            /\ reply' = Reply("update_source", 0, <<>>, 200, "")
    /\ UNCHANGED <<nextSourceId, tags, item_tags, nextTagId, favorites, nextFavId, ingested>>

\* routes/sources.py delete_source: 404 for a missing source, else it is deleted
delete_source(source_id) ==
    /\ IF source_id \notin DOMAIN sources
       THEN /\ reply' = Reply("delete_source", 0, <<>>, 404, "Source not found")
            /\ UNCHANGED sources
       ELSE /\ sources' = [s \in DOMAIN sources \ {source_id} |-> sources[s]]
            /\ reply' = Reply("delete_source", 0, <<>>, 200, "Source deleted")
    /\ UNCHANGED <<nextSourceId, tags, item_tags, nextTagId, favorites, nextFavId, ingested>>

\* The urls of the entries of sources.yaml, in file order
YamlFiles == UNION {[1..n -> Urls] : n \in 0..2}

RECURSIVE YamlAdded(_, _)
\* load_sources_from_yaml lines 336-340: the entries that get a Source.  The
\* session does not autoflush (database.py), so the query of line 338 sees
\* the stored sources and not the ones this call has added.
YamlAdded(config, k) ==
    IF k > Len(config) THEN <<>>
    ELSE (IF url_exists(config[k]) THEN <<>> ELSE <<NewSource(config[k])>>)
         \o YamlAdded(config, k + 1)

\* ingestion.py load_sources_from_yaml: one Source per entry whose URL no
\* stored source has, all in the one commit of line 356
load_sources_from_yaml(config) ==
    LET rows == YamlAdded(config, 1) IN
    /\ nextSourceId + Len(rows) - 1 <= MaxSourceId
    /\ sources' = Inserted(rows)
    /\ nextSourceId' = nextSourceId + Len(rows)
    /\ reply' = Reply("load_sources_from_yaml", 0, <<>>, 0, "")
    /\ UNCHANGED <<tags, item_tags, nextTagId, favorites, nextFavId, ingested>>

(***************************************************************************)
(* Specification.                                                          *)
(***************************************************************************)
\* The steps of ingest_source
PassStep(p) ==
    \/ BeginSource(p)
    \/ EntryStep(p)
    \/ FlushEntry(p)
    \/ FinishSuccess(p)

\* An ingestion process runs ingest_source for one source
SourceJob(p) ==
    \/ \E s \in SourceIds : TriggerIngestSource(p, s)
    \/ PassStep(p)

\* An ingestion process runs ingest_all_sources
BatchJob(p) ==
    \/ TriggerIngestAll(p)
    \/ PassStep(p)

ManualStep ==
    \/ \E m \in ManualInputs : ManualCheck(m)
    \/ ManualInsert

WorkerStep ==
    \/ \E w \in Workers : WorkerTake(w)
    \/ \E w \in Workers : WorkerFinish(w)

\* The whole system
Next ==
    \/ \E p \in Passes : SourceJob(p) \/ BatchJob(p)
    \/ ManualStep
    \/ WorkerStep

Spec == Init /\ [][Next]_vars

\* Ingestion alone: single-source jobs on every ingestion process, possibly at
\* the same time, and manual submissions.  The queue workers do not run: no
\* worker step reads or writes sources, items, details, runs, clock,
\* nextItemId, pass, tx, manual, runlog or batchlog, so what holds of these
\* variables here holds of them with the workers running.
NextIngest ==
    \/ \E p \in Passes : SourceJob(p)
    \/ ManualStep

SpecIngest == Init /\ [][NextIngest]_vars

\* The scheduled job (scheduler.py run_ingestion): one process runs
\* ingest_all_sources while manual submissions arrive
NextBatch ==
    \/ BatchJob(1)
    \/ ManualStep

SpecBatch == Init /\ [][NextBatch]_vars

\* Ingestion to analysis: one single-source job, manual submissions and the
\* queue workers
NextPipeline ==
    \/ SourceJob(1)
    \/ ManualStep
    \/ WorkerStep

SpecPipeline == Init /\ [][NextPipeline]_vars

\* The requests on tags, by any user in any order
NextTags ==
    \/ \E u \in Users, name \in TagNames : create_tag(u, name)
    \/ \E u \in Users, t \in RequestTagIds : delete_tag(u, t)
    \/ \E u \in Users, i \in RequestItemIds, ids \in TagIdLists : assign_tags_to_item(u, i, ids)

SpecTags == InitUserData /\ [][NextTags]_vars

\* The requests on favorites, by any user in any order
NextFavorites ==
    \/ \E u \in Users, i \in RequestItemIds : add_favorite(u, i)
    \/ \E u \in Users, i \in RequestItemIds : remove_favorite(u, i)

SpecFavorites == InitUserData /\ [][NextFavorites]_vars

\* The requests on sources and the loading of sources.yaml, in any order
NextSources ==
    \/ \E url \in Urls : create_source(url)
    \/ \E s \in RequestSourceIds, d \in SourceUpdates : update_source(s, d)
    \/ \E s \in RequestSourceIds : delete_source(s)
    \/ \E config \in YamlFiles : load_sources_from_yaml(config)

SpecSources == InitUserData /\ [][NextSources]_vars

(***************************************************************************)
(* The functions applied on their own: the initial state draws the         *)
(* function and its input, the step applies the function.                  *)
(***************************************************************************)
Call(fn, arg) == [fn |-> fn, arg |-> arg, done |-> FALSE, out |-> <<>>]

system == <<sources, items, details, analyses, runs, clock, nextItemId, openai_api_key,
            pass, tx, queue, redelivered, workers, manual, batchlog, runlog,
            calls, overlap,
            tags, item_tags, nextTagId, favorites, nextFavId, nextSourceId, reply>>

Pending(fn) == probe.fn = fn /\ ~probe.done

Applied(fn) == probe.fn = fn /\ probe.done

ApplyLLM ==
    /\ Pending("run_llm_analysis")
    /\ probe' = [probe EXCEPT !.done = TRUE, !.out = run_llm_analysis(probe.arg)]
    /\ UNCHANGED system

\* Titles, summaries and category hints: with and without a funding keyword,
\* in either case, a keyword broken by a space, a hint that is empty
TypeTitles ==
    { <<>>,
      <<"x">>,
      <<"S","e","e","d">>,
      <<"s","e","e"," ","d">>,
      <<"R","O","U","N","D"," ","t","w","o">>,
      <<"L","e","d"," ","B","y">>,
      <<"$">>,
      <<"f","u","n","d","i","n">> }

TypeSummaries ==
    { <<>>, <<"x">>, <<"R","A","I","S","E","D">>, <<"b","y">> }

TypeCategories ==
    { None, Some(<<>>), Some(<<"F","u","n","d","i","n","g">>),
      Some(<<"x"," ","F","U","N","D","I","N","G">>), Some(<<"f","u","n","d">>) }

ApplyType ==
    /\ Pending("determine_item_type")
    /\ probe' = [probe EXCEPT !.done = TRUE,
                              !.out = determine_item_type(probe.arg.title, probe.arg.summary,
                                                          probe.arg.category)]
    /\ UNCHANGED system

\* URLs written from a host and a path: letters as given or lower-cased, with
\* or without a trailing slash, with or without a query or a fragment
UrlBases ==
    { [host |-> <<"A">>, path |-> <<"/","X">>], [host |-> <<"A">>, path |-> <<>>] }

UrlCases(b) ==
    { b.host \o b.path, Lower(b.host) \o b.path, Lower(b.host) \o Lower(b.path) }

UrlVariants(b) ==
    { <<"h",":","/","/">> \o c \o sl \o tl :
        c \in UrlCases(b), sl \in {<<>>, <<"/">>},
        tl \in {<<>>, <<"?","q">>, <<"#","f">>} }

HashDates == {None, Some(1), Some(2)}

\* Two inputs with one title and one timestamp whose URLs are variants of
\* one base
VariantPairs ==
    { [a |-> [url |-> u, title |-> t, published_at |-> d],
       b |-> [url |-> v, title |-> t, published_at |-> d]] :
        u \in UNION {UrlVariants(b) : b \in UrlBases},
        v \in UNION {UrlVariants(b) : b \in UrlBases},
        t \in {<<"T">>}, d \in {None, Some(1)} }

\* Inputs that differ in any of the three fields
HashInputs ==
    [url : {<<"h",":","/","/","a","/","x">>, <<"h",":","/","/","a","/","y">>, <<"h",":","/","/","a","/","x","|","b">>},
     title : {<<"c">>, <<"b","|","c">>, <<"T">>},
     published_at : HashDates]

HashPairs == VariantPairs \cup [a : HashInputs, b : HashInputs]

\* create_item_hash applied to each of two inputs
ApplyHash ==
    /\ Pending("create_item_hash")
    /\ probe' = [probe EXCEPT
                   !.done = TRUE,
                   !.out = [a |-> create_item_hash(probe.arg.a.url, probe.arg.a.title,
                                                   probe.arg.a.published_at),
                            b |-> create_item_hash(probe.arg.b.url, probe.arg.b.title,
                                                   probe.arg.b.published_at)]]
    /\ UNCHANGED system

\* Titles and summaries that name a round in the ways the patterns look for
RoundTitles ==
    { <<"S","e","r","i","e","s"," ","A">>,
      <<"s","e","r","i","e","s"," "," ","b"," ","r","o","u","n","d">>,
      <<"s","e","r","i","e","s"," ","1">>,
      <<"P","r","e","-","S","e","e","d"," ","r","o","u","n","d">>,
      <<"p","r","e","-","s","e","e","d">>,
      <<"S","e","e","d"," ","R","o","u","n","d">>,
      <<"s","e","e","d">>,
      <<"g","r","o","w","t","h"," ","r","o","u","n","d">>,
      <<"b","r","i","d","g","e"," ","r","o","u","n","d">>,
      <<"g","r","o","w","t","h">>,
      <<"s","e","r","i","e","s">>,
      <<"x">> }

RoundSummaries ==
    { <<>>, <<"c">>, <<"s","e","e","d">>, <<"r","o","u","n","d">> }

\* Titles and summaries that state an amount in the ways the patterns look
\* for, followed or not by other words
AmountTitles ==
    { <<"$","2","m">>,
      <<"$","2"," ","m","i","l","l","i","o","n">>,
      <<"$","2","M"," ","b","y"," ","x">>,
      <<"$","2"," ","b","i","l","l","i","o","n">>,
      <<"$","2","b">>,
      <<"$","1",".","5"," ","m","i","l","l","i","o","n">>,
      <<"2"," ","m","i","l","l","i","o","n"," ","d","o","l","l","a","r","s">>,
      <<"x">>,
      <<"$","2"," ","m","n">>,
      <<"1",".","5","m"," ","$">>,
      <<"$","2","b","n">>,
      <<"a"," ","$","1","m"," ","b">>,
      <<"$","0",".","5","b">> }

AmountSummaries ==
    { <<>>, <<"b","y">>, <<"$","2","b">>, <<"b","a","c","k","e","d">> }

ApplyRound ==
    /\ Pending("extract_funding_details")
    /\ probe' = [probe EXCEPT !.done = TRUE,
                              !.out = extract_funding_details(probe.arg.title, probe.arg.summary)]
    /\ UNCHANGED system

\* Titles: a capitalised phrase before a verb cue or a comma, a cue with no
\* blank after it, a lower-case start, a stop word first, later or beyond the
\* fifth word, one word, no word
CompanyTitles ==
    { <<"A","c","m","e"," ","C","o","r","p"," ","r","a","i","s","e","s"," ","$","1">>,
      <<"A","c","m","e"," ","r","a","i","s","e","s">>,
      <<"A","c","m","e">>,
      <<"a","c","m","e"," ","r","a","i","s","e","s"," ","x">>,
      <<"S","t","r","i","p","e",","," ","t","h","e"," ","x">>,
      <<"r","a","i","s","e","s"," ","x">>,
      <<"A"," ","b"," ","c"," ","d"," ","e"," ","f">>,
      <<"A","c","m","e"," ","-"," ","n","e","w","s">>,
      <<>>,
      <<"A","c","m","e"," ","c","l","o","s","e","s"," ","x"," ","a","s"," ","B"," ","r","a","i","s","e","s"," ","y">>,
      <<"A","c","m","e"," ","L","a","n","d","s"," ","x">>,
      <<"X"," ","r","a","i","s","e","s"," ","y">>,
      <<"-"," ","x">>,
      <<"A"," "," ","r","a","i","s","e","s"," ","x">>,
      <<"A","c","m","e",",","x"," ","y">>,
      <<"A","c","m","e"," ","g","e","t","s",","," ","x">>,
      <<"A","c","m","e"," ","b"," ","c"," ","d"," ","e"," ","g","e","t","s"," ","f">>,
      <<"A","c","m","e"," ","b"," ","c"," ","g","e","t","s"," ","f">>,
      <<" ","A","c","m","e"," ","r","a","i","s","e","s"," ","x">> }

ApplyCompany ==
    /\ Pending("extract_company_name")
    /\ probe' = [probe EXCEPT !.done = TRUE, !.out = extract_company_name(probe.arg.title)]
    /\ UNCHANGED system

ApplyPublished ==
    /\ Pending("published_at")
    /\ probe' = [probe EXCEPT !.done = TRUE, !.out = published_at(probe.arg)]
    /\ UNCHANGED system

ApplyParse ==
    /\ Pending("parse_rss_feed")
    /\ probe' = [probe EXCEPT !.done = TRUE, !.out = parse_rss_feed(probe.arg)]
    /\ UNCHANGED system

ProbeCalls ==
    {Call("run_llm_analysis", resp) : resp \in LLMResponses}
    \cup {Call("parse_rss_feed", feed) : feed \in RawFeeds}
    \cup {Call("published_at", entry) : entry \in RawDates}
    \cup {Call("extract_company_name", [title |-> t]) : t \in CompanyTitles}
    \cup {Call("create_item_hash", pair) : pair \in HashPairs}
    \cup {Call("extract_funding_details", [title |-> t, summary |-> sm]) :
             t \in RoundTitles, sm \in RoundSummaries}
    \cup {Call("extract_funding_details", [title |-> t, summary |-> sm]) :
             t \in AmountTitles, sm \in AmountSummaries}
    \cup {Call("determine_item_type", [title |-> t, summary |-> sm, category |-> c]) :
             t \in TypeTitles, sm \in TypeSummaries, c \in TypeCategories}

InitFunctions ==
    /\ InitSystem
    /\ probe \in ProbeCalls

NextFunctions ==
    \/ ApplyLLM
    \/ ApplyParse
    \/ ApplyType
    \/ ApplyHash
    \/ ApplyRound
    \/ ApplyPublished
    \/ ApplyCompany

SpecFunctions == InitFunctions /\ [][NextFunctions]_vars

(***************************************************************************)
(* Properties.                                                             *)
(***************************************************************************)
Finished(r) == runlog[r].ret # "none"

\* C1: in every reachable state, whatever the interleaving of ingestion
\* passes and manual item creations, no two persisted items have the same
\* fingerprint.
C1_UniqueFingerprint ==
    \A i \in items : \A j \in items : i.hash = j.hash => i = j

\* An INSERT of a fingerprint that a concurrent writer had committed in the
\* meantime was rejected by the index, and the fingerprint is persisted
C1_Witness ==
    \E r \in DOMAIN runlog :
        /\ runlog[r].exc = "IntegrityError"
        /\ \E i \in items : i.hash = EntryHash(1)

\* r2 re-runs r1: same source, started after r1 ended SUCCESS, and its feed
\* returned the entries r1's feed returned
Rerun(r1, r2) ==
    /\ runs[r1].status = "success"
    /\ runs[r1].finished_at < runs[r2].started_at
    /\ runs[r1].source_id = runs[r2].source_id
    /\ Finished(r2)
    /\ runlog[r2].read = runlog[r1].read

\* C2: a pass over a source whose feed returns the entries of an earlier
\* successful pass ends SUCCESS with items_added = 0 and inserts nothing: no
\* item and no detail row is its work.
C2_RerunAddsNothing ==
    \A r1 \in DOMAIN runs : \A r2 \in DOMAIN runs :
        Rerun(r1, r2) =>
            /\ runlog[r2].ret = "success"
            /\ runs[r2].status = "success"
            /\ runs[r2].items_added = 0
            /\ runlog[r2].flushed = {}
            /\ \A i \in items : i.by_run # r2

\* A pass that added items was re-run with the same entries
C2_Witness ==
    \E r1 \in DOMAIN runs : \E r2 \in DOMAIN runs :
        /\ Rerun(r1, r2)
        /\ runs[r1].items_added > 0

\* C2, second half: no step changes or removes a persisted item or a
\* persisted detail row (rows are only ever added).
C2_RowsKept ==
    [][items \subseteq items' /\ details \subseteq details']_vars

\* C3: analyze_item invoked on an existing item several times in sequence:
\* the first invocation returns 'success' and creates the record, every later
\* one returns 'skipped', and the item has exactly the record the first
\* invocation stored (score, summary, rubric, model identifier unchanged).
C3_SequentialAnalysis ==
    \A id \in ItemIds :
        (id \notin overlap /\ calls[id] # <<>>) =>
            /\ calls[id][1].result = "success"
            /\ \A k \in 2..Len(calls[id]) : calls[id][k].result = "skipped"
            /\ \A k \in 1..Len(calls[id]) : calls[id][k].rows = calls[id][1].rows
            /\ RowsOf(id) = calls[id][1].rows
            /\ Cardinality(RowsOf(id)) = 1

\* An item was analysed twice in sequence
C3_Witness ==
    \E id \in ItemIds :
        /\ id \notin overlap
        /\ Len(calls[id]) >= 2
        /\ calls[id][2].result = "skipped"

\* Nothing is left to run: the job has ended, the request was served, the
\* queue is empty and the workers are idle
Settled ==
    /\ pass[1].pc = "done"
    /\ manual.pc = "idle"
    /\ manual.done = MaxManual
    /\ queue = {}
    /\ \A w \in Workers : workers[w].pc = "idle"

\* C4: every item persisted by an ingestion pass ends up with an analysis
\* record, whether the queue was reachable or not: once nothing is left to
\* run, no item of a successful pass is without one.
C4_IngestedItemsAnalysed ==
    Settled =>
        \A i \in items :
            (i.by_run # 0 /\ runs[i.by_run].status = "success") => analysis_exists(i.id)

\* C5: every exception raised in ingest_source after the run record was
\* created is caught: ingest_source returns 'failed' and the run record ends
\* FAILED with the error text, never RUNNING.
C5_ExceptionsCaught ==
    \A r \in DOMAIN runlog :
        runlog[r].exc # "" =>
            /\ runlog[r].ret = "failed"
            /\ runs[r].status = "failed"
            /\ runs[r].error = runlog[r].exc

\* C6: ingest_all_sources processes every enabled source whatever happens in
\* one of them: the job returns, with a result entry and a run record for
\* each of the sources it listed.
C6_BatchCoversEverySource ==
    \A b \in DOMAIN batchlog :
        /\ batchlog[b].ended = "returned"
        /\ Len(batchlog[b].results) = Len(batchlog[b].ids)
        /\ \A k \in DOMAIN batchlog[b].results :
              /\ batchlog[b].results[k].source = batchlog[b].ids[k]
              /\ batchlog[b].results[k].run \in DOMAIN runs

\* C7: when a pass ends FAILED, every item it had inserted before the
\* failing entry is persisted, with its detail row.
C7_FailedPassKeepsItems ==
    \A r \in DOMAIN runs :
        runs[r].status = "failed" =>
            \A id \in runlog[r].flushed :
                /\ \E i \in items : i.id = id /\ i.by_run = r
                /\ \E d \in details : d.item_id = id

\* A pass failed at its second entry after inserting the first
C7_Witness ==
    \E r \in DOMAIN runs :
        /\ runs[r].status = "failed"
        /\ runlog[r].flushed # {}

\* C8: a run record's status only moves RUNNING -> SUCCESS or RUNNING ->
\* FAILED, and a record that is SUCCESS or FAILED is never changed again.
C8_RunLifecycle ==
    [][\A r \in DOMAIN runs :
          /\ r \in DOMAIN runs'
          /\ runs[r].status # "running" => runs'[r] = runs[r]
          /\ runs[r].status = "running" =>
                runs'[r].status \in {"running", "success", "failed"}]_vars

\* A pass ended, and another pass over the same source ended after it
C8_Witness ==
    \E r1 \in DOMAIN runs : \E r2 \in DOMAIN runs :
        /\ runs[r1].status # "running"
        /\ runs[r2].status # "running"
        /\ runs[r1].source_id = runs[r2].source_id
        /\ runs[r1].finished_at < runs[r2].started_at

\* C9: an entry whose fingerprint is already persisted, by an earlier pass
\* or by a pass running at the same time, is skipped without error: with no
\* manual submission made, a pass whose entries are all well formed ends
\* SUCCESS.
C9_DuplicatesSkipped ==
    \A r \in DOMAIN runlog :
        (/\ Finished(r)
         /\ \A e \in runlog[r].read : ~Entry(e).title.none
         /\ manual = IdleManual) =>
            /\ runlog[r].ret = "success"
            /\ runs[r].status = "success"

\* C10: under any interleaving of concurrent or redelivered analyze_item
\* invocations, each item has at most one analysis record.
C10_AtMostOneAnalysis ==
    \A id \in ItemIds : Cardinality(RowsOf(id)) <= 1

\* Two invocations for one item ran at the same time and the store rejected
\* the second record
C10_Witness ==
    \E id \in overlap :
        \E k \in 1..Len(calls[id]) : calls[id][k].result = "raised"

\* The payload stored in an analysis row
Payload(a) ==
    [fit_score |-> a.fit_score, mena_summary |-> a.mena_summary, rubric |-> a.rubric_json]

C12_PayloadInRange ==
    Applied("run_llm_analysis") =>
        /\ probe.out.fit_score \in 0..100
        /\ \A k \in RubricKeys :
              /\ k \in DOMAIN probe.out.rubric
              /\ probe.out.rubric[k] \in 0..20
              /\ k \notin DOMAIN probe.arg.rubric => probe.out.rubric[k] = 10

\* The model answered with a score above 100, a rubric value outside 0..20
\* and a rubric key left out, and the payload came from that answer
C12_Witness ==
    /\ Applied("run_llm_analysis")
    /\ openai_api_key /\ probe.arg.ok /\ ~IntRaises(probe.arg)
    /\ probe.arg.has_fit /\ probe.arg.fit_score > 100
    /\ \E k \in DOMAIN probe.arg.rubric : probe.arg.rubric[k] \notin 0..20
    /\ \E k \in RubricKeys : k \notin DOMAIN probe.arg.rubric
    /\ probe.out.mena_summary = "model text"

\* The five rubric sub-scores of a rubric added up
RubricSum(rubric) ==
    rubric["budget_buyer_exists"] + rubric["localization_arabic_bilingual"]
    + rubric["regulatory_friction"] + rubric["distribution_path"]
    + rubric["time_to_revenue"]

\* C13: every analysis record analyze_item persisted, from the stub or from
\* the model, has a fit_score equal to the sum of its five rubric sub-scores.
C13_ScoreIsRubricSum ==
    \A a \in analyses : a.fit_score = RubricSum(a.rubric_json)

\* C14: the stored model identifier is 'stub' whenever the stored payload is
\* the deterministic fallback (no credential, or the call or its parsing
\* failed), and the configured model name only when the model produced the
\* payload.
C14_ModelNameTellsOrigin ==
    \A id \in ItemIds : \A k \in 1..Len(calls[id]) :
        \A a \in calls[id][k].rows :
            calls[id][k].result = "success" =>
                /\ calls[id][k].llm \in {"none", "failed"} => a.model_name = "stub"
                /\ a.model_name # "stub" => calls[id][k].llm = "answered"

\* C15: parse_rss_feed never raises: when the fetch or the parse of the whole
\* feed fails it returns the empty sequence, so the pass reads no entry and
\* adds nothing, and the run ends SUCCESS with items_added = 0.
C15_FailedFetchEmptyRun ==
    \A r \in 1..Len(runlog) :
        runlog[r].fetch = "failed" =>
            /\ runlog[r].read = {} /\ runlog[r].flushed = {}
            /\ runlog[r].ret \in {"none", "success"}
            /\ \A i \in items : i.by_run # r
            /\ Finished(r) => /\ runs[r].status = "success"
                               /\ runs[r].items_added = 0
                               /\ runs[r].finished_at # 0

\* A run whose fetch failed has ended while another run added an item
C15_Witness ==
    \E r \in 1..Len(runlog) :
        /\ runlog[r].fetch = "failed" /\ Finished(r)
        /\ items # {}

\* C16: parse_rss_feed handles the entries of a fetched feed independently:
\* when the candidate of one entry cannot be built, the candidates of the
\* other entries are still returned.
C16_EntriesIndependent ==
    (Applied("parse_rss_feed") /\ probe.arg.fetched) =>
        \A i \in DOMAIN probe.arg.entries :
            probe.arg.entries[i].summary_is_text =>
                \E j \in DOMAIN probe.out : probe.out[j] = probe.arg.entries[i].id

\* The lower-case text k occurs in s when the case of letters is ignored
Occurs(s, k) ==
    \E i \in 1..(Len(s) - Len(k) + 1) :
        \A j \in 1..Len(k) : LowerChar(s[i + j - 1]) = k[j]

KeywordOccurs(title, summary) ==
    \E k \in funding_keywords : Occurs(title, k) \/ Occurs(summary, k)

\* C17: determine_item_type returns FUNDING exactly when a funding keyword
\* occurs, case ignored, as a substring of the title or of the summary, or no
\* keyword occurs and the category hint contains 'funding', case ignored;
\* otherwise, an absent hint included, it returns COMPANY.
C17_FundingExactly ==
    Applied("determine_item_type") =>
        /\ probe.out \in {"funding", "company"}
        /\ probe.out = "funding" <=>
              \/ KeywordOccurs(probe.arg.title, probe.arg.summary)
              \/ /\ ~KeywordOccurs(probe.arg.title, probe.arg.summary)
                 /\ ~probe.arg.category.none
                 /\ Occurs(probe.arg.category.v, Funding)

\* FUNDING was returned for a keyword that occurs in upper case only
C17_Witness ==
    /\ Applied("determine_item_type")
    /\ probe.out = "funding"
    /\ probe.arg.category.none
    /\ ~KeywordOccurs(probe.arg.title, <<>>)
    /\ \A k \in funding_keywords : ~Contains(probe.arg.summary, k)

\* C18: create_item_hash returns the same fingerprint for two inputs with
\* equal title and timestamp whose URLs differ only in the letter case of
\* host or path, in a trailing slash, or in the query or fragment; the same
\* input always gives the same fingerprint.
C18_UrlVariantsSameHash ==
    Applied("create_item_hash") =>
        /\ probe.arg.a = probe.arg.b => probe.out.a = probe.out.b
        /\ \A base \in UrlBases :
              ( /\ probe.arg.a.url \in UrlVariants(base)
                /\ probe.arg.b.url \in UrlVariants(base)
                /\ probe.arg.a.title = probe.arg.b.title
                /\ probe.arg.a.published_at = probe.arg.b.published_at )
              => probe.out.a = probe.out.b

\* Two URLs of one base that differ in case, trailing slash and query were
\* hashed with a timestamp
C18_Witness ==
    /\ Applied("create_item_hash")
    /\ probe.arg.a.url = <<"h",":","/","/","A","/","X","/","?","q">>
    /\ probe.arg.b.url = <<"h",":","/","/","a","/","x">>
    /\ ~probe.arg.a.published_at.none
    /\ probe.out.a = probe.out.b

\* C19: create_item_hash returns different fingerprints whenever the URL, the
\* title, or the presence or value of the timestamp differs (URL and title
\* compared as normalised).
C19_DifferentInputsDifferentHash ==
    ( /\ Applied("create_item_hash")
      /\ \/ normalized_url(probe.arg.a.url) # normalized_url(probe.arg.b.url)
         \/ normalized_title(probe.arg.a.title) # normalized_title(probe.arg.b.title)
         \/ probe.arg.a.published_at # probe.arg.b.published_at )
    => probe.out.a # probe.out.b

\* The ordered rules: 'series' and a letter, 'pre-seed', 'seed', 'growth
\* round', 'bridge round'
OrderedRules ==
    << [kind |-> "series", w1 |-> <<"s","e","r","i","e","s">>, w2 |-> <<>>, out |-> <<>>],
       [kind |-> "word", w1 |-> <<"p","r","e","-","s","e","e","d">>, w2 |-> <<>>, out |-> <<"p","r","e","_","s","e","e","d">>],
       [kind |-> "word", w1 |-> <<"s","e","e","d">>, w2 |-> <<>>, out |-> <<"s","e","e","d">>],
       [kind |-> "phrase", w1 |-> <<"g","r","o","w","t","h">>, w2 |-> <<"r","o","u","n","d">>, out |-> <<"g","r","o","w","t","h">>],
       [kind |-> "phrase", w1 |-> <<"b","r","i","d","g","e">>, w2 |-> <<"r","o","u","n","d">>, out |-> <<"b","r","i","d","g","e">>] >>

\* C20: extract_funding_details decides the round type by the ordered rules,
\* the first that matches winning: 'series' followed by a letter gives
\* 'series_<letter>'; else 'pre-seed' gives 'pre_seed'; else 'seed' gives
\* 'seed'; else 'growth round' gives 'growth'; else 'bridge round' gives
\* 'bridge'; else the round type is null.
C20_RoundByOrderedRules ==
    Applied("extract_funding_details") =>
        probe.out.round_type =
            FirstMatch(FundingText(probe.arg.title, probe.arg.summary), OrderedRules, 1)

\* The amount of the first pattern that matches, scaled by the unit that
\* pattern matched: million or m, billion or b
RECURSIVE AmountByUnit(_, _, _)
AmountByUnit(text, patterns, k) ==
    IF k > Len(patterns) THEN None
    ELSE IF AmountSearch(text, 1, patterns[k]) # 0
         THEN Some(AmountOf(text,
                            NumberStart(AmountSearch(text, 1, patterns[k]), patterns[k]),
                            SkipDigits(text, NumberStart(AmountSearch(text, 1, patterns[k]),
                                                         patterns[k])),
                            NumberEnd(text, NumberStart(AmountSearch(text, 1, patterns[k]),
                                                        patterns[k])),
                            IF patterns[k].letter = "b" THEN 1000 * 1000000 ELSE 1000000))
         ELSE AmountByUnit(text, patterns, k + 1)

\* C21: extract_funding_details sets amount_usd from the first amount pattern
\* that matches: the number times 1,000,000 when the matched unit is million
\* or m, the number times 1,000 times 1,000,000 only when the matched unit is
\* billion or b, whatever text follows the match; null when no amount pattern
\* matches.
C21_AmountByMatchedUnit ==
    Applied("extract_funding_details") =>
        probe.out.amount_usd =
            AmountByUnit(FundingText(probe.arg.title, probe.arg.summary), amount_patterns, 1)

\* The detail rows of an item
DetailsOf(i) == {d \in details : d.item_id = i.id}

\* C22: every item an ingestion pass persisted owns exactly one detail
\* sub-record, of the kind of its type: a FUNDING item one funding-detail row
\* and no company-detail row, a COMPANY item one company-detail row and no
\* funding-detail row.
C22_OneDetailOfItsType ==
    \A i \in items :
        i.by_run # 0 =>
            /\ i.type \in {"funding", "company"}
            /\ Cardinality(DetailsOf(i)) = 1
            /\ \A d \in DetailsOf(i) : d.kind = i.type

\* Passes persisted a FUNDING item and a COMPANY item, one of them in a pass
\* that ended FAILED
C22_Witness ==
    /\ \E i \in items : i.by_run # 0 /\ i.type = "funding"
    /\ \E i \in items : i.by_run # 0 /\ i.type = "company"
    /\ \E i \in items : i.by_run # 0 /\ runs[i.by_run].status = "failed"

\* The items a run persisted
ItemsOfRun(r) == {i \in items : i.by_run = r}

\* C23: for every finalized run record, SUCCESS or FAILED, items_added is the
\* number of items the pass persisted; an entry skipped for an empty URL or
\* for a fingerprint already persisted is not counted and not persisted.
C23_ItemsAddedCountsPersisted ==
    \A r \in DOMAIN runs :
        runs[r].status \in {"success", "failed"} =>
            /\ runs[r].items_added = Cardinality(ItemsOfRun(r))
            /\ Cardinality(ItemsOfRun(r)) <= Cardinality(runlog[r].read)
            /\ \A e \in runlog[r].read :
                  Entry(e).url = <<>> => \A i \in ItemsOfRun(r) : i.hash # EntryHash(e)

\* C24: the publish time of a candidate parse_rss_feed produces is the
\* structured parsed date when that field is usable, otherwise the parse of
\* the free-text date when that parses, otherwise absent, and never another
\* value.
C24_PublishTimeResolution ==
    Applied("published_at") =>
        probe.out =
            IF probe.arg.published_parsed = "usable" THEN Some(probe.arg.parsed_date)
            ELSE IF probe.arg.published = "parses" THEN Some(probe.arg.text_date)
            ELSE None

\* The title has the shape of a capitalised phrase followed by a verb cue or
\* a comma
HasCueShape(title) ==
    \E k \in DOMAIN company_patterns : GroupEnds(title, company_patterns[k]) # {}

\* name is a capitalised leading phrase of the title that precedes a cue
LeadingPhrase(title, name) ==
    /\ name # <<>>
    /\ name[1] \in UpperLetters
    /\ \E k \in DOMAIN company_patterns :
         \E g \in GroupEnds(title, company_patterns[k]) :
            name = Strip(SubSeq(title, 1, g), Whitespace)

\* how many of the first five words stand before the first stop word
LeadCount(words) ==
    CHOOSE n \in 0..5 :
        /\ n <= Len(words)
        /\ \A i \in 1..n : Lower(words[i]) \notin stop_words
        /\ n = 5 \/ n = Len(words) \/ Lower(words[n + 1]) \in stop_words

\* the leading words of the title, at most five, before the first stop word
LeadingWords(words) == SubSeq(words, 1, LeadCount(words))

NameOrNull(words) == IF words = <<>> THEN None ELSE Some(Join(words))

\* C25: extract_company_name returns the capitalised leading phrase of the
\* title that precedes a verb cue or a comma when the title has that shape;
\* otherwise null when the title has fewer than two words, and else the
\* leading words of the title (at most the first 5) before the first stop
\* word, null when that leaves no word.
C25_CompanyName ==
    Applied("extract_company_name") =>
        IF HasCueShape(probe.arg.title)
        THEN ~probe.out.none /\ LeadingPhrase(probe.arg.title, probe.out.v)
        ELSE IF Len(SplitFrom(probe.arg.title, 1)) < 2 THEN probe.out = None
        ELSE probe.out = NameOrNull(LeadingWords(SplitFrom(probe.arg.title, 1)))

\* A title without the cue shape whose third word is a stop word gave its
\* first two words
C25_Witness ==
    /\ Applied("extract_company_name")
    /\ ~HasCueShape(probe.arg.title)
    /\ Len(SplitFrom(probe.arg.title, 1)) >= 3
    /\ LeadCount(SplitFrom(probe.arg.title, 1)) \in 1..4
    /\ LeadCount(SplitFrom(probe.arg.title, 1)) < Len(SplitFrom(probe.arg.title, 1))
    /\ ~probe.out.none

\* C25 as stated: without the cue shape the result is the leading words
\* before the first stop word, null only when that leaves no word.
C25_NullOnlyWhenNoWord ==
    Applied("extract_company_name") =>
        IF HasCueShape(probe.arg.title)
        THEN ~probe.out.none /\ LeadingPhrase(probe.arg.title, probe.out.v)
        ELSE probe.out = NameOrNull(LeadingWords(SplitFrom(probe.arg.title, 1)))

\* C26: when two analyze_item invocations for one item race, both passing the
\* existence check before either commits, the one that loses ends as a
\* silent skip: no invocation ends with an unhandled error.
C26_RaceLoserSkips ==
    \A id \in overlap :
        \A k \in 1..Len(calls[id]) : calls[id][k].result \in {"success", "skipped"}

\* The user a tag belongs to
TagOwner(tagrows, tag_id) == (CHOOSE t \in tagrows : t.id = tag_id).user_id

\* The associations of one user's tags with one item
OwnOn(rows, tagrows, u, item_id) ==
    {r \in rows : r.item_id = item_id /\ TagOwner(tagrows, r.tag_id) = u}

\* C27: a successful assign_tags_to_item(item, tag_ids) by a user leaves that
\* user's tags on the item exactly tag_ids, and leaves every association of
\* another user or of another item as it was.
C27_AssignReplacesOwnTags ==
    [][(reply'.op = "assign_tags_to_item" /\ reply'.status = 200) =>
          LET u == reply'.user
              it == reply'.arg.item_id
              ids == Range(reply'.arg.tag_ids)
          IN /\ {r.tag_id : r \in OwnOn(item_tags', tags', u, it)} = ids
             /\ item_tags' \ OwnOn(item_tags', tags', u, it)
                  = item_tags \ OwnOn(item_tags, tags, u, it)]_vars

\* A user's successful assignment of one of their two tags to an item that
\* carries a tag of the other user
C27_Witness ==
    /\ reply.op = "assign_tags_to_item"
    /\ reply.status = 200
    /\ Len(reply.arg.tag_ids) = 1
    /\ Cardinality(user_tag_ids(reply.user)) = 2
    /\ \E r \in item_tags : r.item_id = reply.arg.item_id
                            /\ TagOwner(tags, r.tag_id) # reply.user

\* C28: whatever create_tag, assign_tags_to_item and delete_tag requests
\* came, every association in item_tags references a stored tag; a
\* delete_tag by the tag's owner removes the tag and every association that
\* references it; a delete_tag by anyone else answers 404 and changes
\* neither table.
C28_NoAssociationOfDeletedTag ==
    /\ [](\A r \in item_tags : \E t \in tags : t.id = r.tag_id)
    /\ [][reply'.op = "delete_tag" =>
            IF \E t \in tags : t.id = reply'.arg /\ t.user_id = reply'.user
            THEN /\ reply'.status = 200
                 /\ ~\E t \in tags' : t.id = reply'.arg
                 /\ ~\E r \in item_tags' : r.tag_id = reply'.arg
            ELSE /\ reply'.status = 404
                 /\ UNCHANGED <<tags, item_tags>>]_vars

\* A tag was deleted by its owner while associations of other tags remain
C28_Witness ==
    /\ reply.op = "delete_tag"
    /\ reply.status = 200
    /\ item_tags # {}
    /\ Cardinality(tags) = 2

\* C29: whatever add_favorite and remove_favorite requests came from
\* whatever users, a user has at most one favorite of an item; add_favorite
\* on an item the user has favorited answers 'Already favorited' and
\* remove_favorite on one the user has not answers 404, both without a
\* change to the favorites.
C29_OneFavoritePerUserItem ==
    /\ [](\A f, g \in favorites :
            (f.user_id = g.user_id /\ f.item_id = g.item_id) => f = g)
    /\ [][/\ (/\ reply'.op = "add_favorite"
              /\ \E f \in favorites : f.user_id = reply'.user /\ f.item_id = reply'.arg)
             => (/\ reply'.detail = "Already favorited"
                 /\ UNCHANGED favorites)
          /\ (/\ reply'.op = "remove_favorite"
              /\ ~\E f \in favorites : f.user_id = reply'.user /\ f.item_id = reply'.arg)
             => (/\ reply'.status = 404
                 /\ UNCHANGED favorites)]_vars

\* A user asked again for a favorite they have, while the other user has
\* the same item as a favorite too
C29_Witness ==
    /\ reply.op = "add_favorite"
    /\ reply.detail = "Already favorited"
    /\ Cardinality({f \in favorites : f.item_id = reply.arg}) = 2

\* C30: whatever create_source, update_source, delete_source and
\* load_sources_from_yaml calls came, no two stored sources have the same URL.
C30_UniqueSourceUrl ==
    \A s1, s2 \in DOMAIN sources : sources[s1].url = sources[s2].url => s1 = s2

=============================================================================
